---- MODULE Spec2Model ----
(***************************************************************************)
(* Poetic-LLM: the multi-expert orchestration engine.                      *)
(*                                                                         *)
(*   ExpertRunner.run             server/llm/expertRunner.ts               *)
(*   PoetiqOrchestrator.solveTask server/storage.ts (orchestrator section) *)
(*                                                                         *)
(* JavaScript runs one callback at a time: the code between two awaits is  *)
(* one atomic step.  Every action below is one such step: it starts at the *)
(* resumption of an await (a provider stream that ended, a sandbox that    *)
(* delivered its result) and runs to the next await or to the return.      *)
(***************************************************************************)
EXTENDS Integers, Sequences, FiniteSets, TLC

VARIABLES
    providers,   \* PoetiqOrchestrator.providers (enabled ones, in order)
    consensusMode, \* PoetiqOrchestrator.consensusMode
    task,        \* the userPrompt handed to solveTask
    phase,       \* position of the solveTask generator
    expert,      \* per runner: the locals of ExpertRunner.run / of a pipeline
    heap,        \* message arrays by reference: 0 = `messages`, e = copy of runner e
    results,     \* the array awaited from Promise.all
    out,         \* text fragments yielded by solveTask, in order
    stepCount,   \* number of onReasoningStep calls (routes.ts stepNumber)
    pendingSteps, \* routes.ts pendingSteps: the numbered steps, in order
    usageEvents, \* onTokenUsage emissions, in order
    consensus,   \* calls of an aggregator: the result list passed, the verdict
    audit,       \* per runner, observed from outside: calls issued, usage reported,
                 \* attempts ended by kind, what happened after a success
    raised,      \* solveTask threw to its caller
    sandbox,     \* one executePython call: its locals, the file, the child process
    calc         \* one call of a pure function: its arguments and its result

vars == <<providers, consensusMode, pendingSteps, task, phase, expert, heap, results, out, stepCount,
          usageEvents, consensus, audit, raised, sandbox, calc>>

(***************************************************************************)
(* Bounds of the model.                                                    *)
(***************************************************************************)
MaxConfiguredRetries == 3   \* largest ExpertConfig.maxRetries tried by SpecRunner
MaxTokens == 1              \* largest token count one provider call reports

(***************************************************************************)
(* Values.                                                                 *)
(***************************************************************************)
None == "none"              \* null / undefined

ZeroUsage == [inputTokens |-> 0, outputTokens |-> 0]

AddUsage(a, b) ==
    [inputTokens  |-> a.inputTokens + b.inputTokens,
     outputTokens |-> a.outputTokens + b.outputTokens]

\* The usage one provider call can report through onUsage.
UsageVals == {[inputTokens |-> n, outputTokens |-> 2 * n] : n \in 0..MaxTokens}

\* Texts a provider can answer with.  A text is named by a string; Segments
\* gives its layout: prose, or a fenced block with the word after the opening
\* fence (tag) and its trimmed content (body).
Prose(t) == [seg |-> "text", tag |-> "", body |-> t]
Block(tag, b) == [seg |-> "block", tag |-> tag, body |-> b]

Segments(text) ==
    CASE text = "prose"  -> <<Prose("let me think")>>
      [] text = "python" -> <<Prose("here it is"), Block("python", "print(17*23)")>>
      [] text = "plain"  -> <<Block("", "print(391)")>>
      [] text = "js"     -> <<Block("js", "log(1)"), Prose("done")>>
      [] text = "mixed"  -> <<Block("", "print(4)"), Block("python", "print(5)")>>
      [] text = "hollow" -> <<Block("python", "")>>
      [] OTHER           -> <<>>

\* Index of the first block of segs with this tag, 0 when there is none.
FirstBlock(segs, tag) ==
    IF \E i \in 1..Len(segs) : segs[i].seg = "block" /\ segs[i].tag = tag
    THEN CHOOSE i \in 1..Len(segs) :
            /\ segs[i].seg = "block" /\ segs[i].tag = tag
            /\ \A j \in 1..(i - 1) : ~(segs[j].seg = "block" /\ segs[j].tag = tag)
    ELSE 0

\* One turn of a transcript; content is a tuple of strings.
Turn(role, content) == [role |-> role, content |-> content]

NoCodeError == "Error: No Python code block found."
NoCodeTurn == Turn("user", <<NoCodeError>>)
ExecErrorTurn(output) == Turn("user", <<"Error from code execution:", output>>)
AssistantTurn(response) == Turn("assistant", <<response>>)

\* formatSuccessResponse: the prose of the response (code blocks stripped),
\* then the execution output under the Result marker.
formatSuccessResponse(response, executionOutput) ==
    LET segs  == Segments(response)
        prose == SelectSeq(segs, LAMBDA x : x.seg = "text")
    IN  [i \in 1..Len(prose) |-> prose[i].body] \o <<"**Result:**", executionOutput>>

\* String.toLowerCase on the characters the model uses.
toLowerCase(w) ==
    CASE w = "O"        -> "o"
      [] w = "K"        -> "k"
      [] w = "N"        -> "n"
      [] w = "V"        -> "v"
      [] w = "B"        -> "b"
      [] w = "E"        -> "e"
      [] w = "S"        -> "s"
      [] w = "[CODE:"   -> "[code:"
      [] OTHER          -> w

LowerText(text) == [i \in 1..Len(text) |-> toLowerCase(text[i])]

\* The characters of a string literal.
Chars(s) == [i \in 1..Len(s) |-> SubSeq(s, i, i)]

\* " " and "\n" are the whitespace characters.
Whitespace == {" ", "\n"}

\* String.trim
RECURSIVE trimStart(_)
trimStart(text) ==
    IF text # <<>> /\ Head(text) \in Whitespace THEN trimStart(Tail(text)) ELSE text

RECURSIVE trimEnd(_)
trimEnd(text) ==
    IF text # <<>> /\ text[Len(text)] \in Whitespace
    THEN trimEnd(SubSeq(text, 1, Len(text) - 1))
    ELSE text

trim(text) == trimEnd(trimStart(text))

(***************************************************************************)
(* consensus: canonicalizeAnswer.  Characters are one-character strings;   *)
(* Fence stands for three backticks.                                       *)
(***************************************************************************)
Fence == "<fence>"

\* \w
WordChars == {"o", "k", "n", "v", "b", "O", "K", "N", "V", "2", "3", "_"}

\* Index of the first element of s that is in set, 0 when there is none.
FirstIn(s, set) ==
    IF \E i \in 1..Len(s) : s[i] \in set
    THEN CHOOSE i \in 1..Len(s) : s[i] \in set /\ \A j \in 1..(i - 1) : s[j] \notin set
    ELSE 0

\* The inside of a fenced block after /```\w*\n?/ was removed: the word that
\* follows the opening fence and one line break are dropped, the rest trimmed.
RECURSIVE DropWord(_)
DropWord(s) == IF s # <<>> /\ Head(s) \in WordChars THEN DropWord(Tail(s)) ELSE s

CodeOf(inner) ==
    LET afterWord == DropWord(inner)
    IN  trim(IF afterWord # <<>> /\ Head(afterWord) = "\n" THEN Tail(afterWord)
             ELSE afterWord)

\* replace(/```[\s\S]*?```/g, ...): each fence up to the next one becomes
\* [CODE:code]; a fence without a closing one stays.
RECURSIVE ReplaceCodeBlocks(_)
ReplaceCodeBlocks(s) ==
    IF s = <<>> THEN <<>>
    ELSE LET close == FirstIn(Tail(s), {Fence})
         IN  IF Head(s) = Fence /\ close # 0
             THEN <<"[CODE:">> \o CodeOf(SubSeq(Tail(s), 1, close - 1)) \o <<"]">>
                    \o ReplaceCodeBlocks(SubSeq(Tail(s), close + 1, Len(s) - 1))
             ELSE <<Head(s)>> \o ReplaceCodeBlocks(Tail(s))

\* replace(/\s+/g, " ")
RECURSIVE CollapseWhitespace(_)
CollapseWhitespace(s) ==
    IF s = <<>> THEN <<>>
    ELSE IF Head(s) \in Whitespace
    THEN <<" ">> \o CollapseWhitespace(trimStart(s))
    ELSE <<Head(s)>> \o CollapseWhitespace(Tail(s))

\* replace(/MM([^M]+)MM/g, "$1") for the marker M repeated n times: scanning
\* from the left, an opening marker followed by a non-empty run without M and
\* the closing marker is replaced by the run.
RECURSIVE StripMarkers(_, _, _)
StripMarkers(s, mark, n) ==
    IF s = <<>> THEN <<>>
    ELSE LET opens  == Len(s) >= n /\ \A k \in 1..n : s[k] = mark
             rest   == SubSeq(s, n + 1, Len(s))
             stop   == FirstIn(rest, {mark})
             run    == IF stop = 0 THEN rest ELSE SubSeq(rest, 1, stop - 1)
             closes == /\ run # <<>>
                       /\ stop # 0
                       /\ stop + n - 1 <= Len(rest)
                       /\ \A k \in 0..(n - 1) : rest[stop + k] = mark
         IN  IF opens /\ closes
             THEN run \o StripMarkers(SubSeq(rest, stop + n, Len(rest)), mark, n)
             ELSE <<Head(s)>> \o StripMarkers(Tail(s), mark, n)

canonicalizeAnswer(answer) ==
    LET canonical == LowerText(trim(CollapseWhitespace(ReplaceCodeBlocks(answer))))
    IN  StripMarkers(StripMarkers(StripMarkers(StripMarkers(
            canonical, "*", 2), "_", 2), "*", 1), "_", 1)

(***************************************************************************)
(* extractPythonCode, on the characters of the response.                   *)
(***************************************************************************)
\* The characters of a response with this layout: a block is its opening
\* fence with the tag, a line break, the body, a line break and the closing
\* fence; the segments are one line break apart.
RECURSIVE TextOf(_)
TextOf(segs) ==
    IF segs = <<>> THEN <<>>
    ELSE LET x    == Head(segs)
             text == IF x.seg = "text" THEN Chars(x.body)
                     ELSE <<Fence>> \o Chars(x.tag) \o <<"\n">> \o Chars(x.body)
                            \o <<"\n", Fence>>
         IN  IF Len(segs) = 1 THEN text
             ELSE text \o <<"\n">> \o TextOf(Tail(segs))

\* response.match(/```<tag>\n([\s\S]*?)```/): the leftmost place where the
\* fence, the tag and a line break stand and a fence follows; the group
\* runs up to the first fence after them.  code is the trimmed group.
matchFenced(text, tag) ==
    LET opening == <<Fence>> \o tag \o <<"\n">>
        starts  == {i \in 1..(Len(text) - Len(opening)) :
                      /\ text[i] = Fence
                      /\ SubSeq(text, i, i + Len(opening) - 1) = opening
                      /\ \E j \in (i + Len(opening))..Len(text) : text[j] = Fence}
    IN  IF starts = {} THEN [matched |-> FALSE, code |-> <<>>]
        ELSE LET i    == CHOOSE i \in starts : \A k \in starts : i <= k
                 from == i + Len(opening)
                 stop == CHOOSE j \in from..Len(text) :
                            /\ text[j] = Fence
                            /\ \A k \in from..(j - 1) : text[k] # Fence
             IN  [matched |-> TRUE, code |-> trim(SubSeq(text, from, stop - 1))]

\* extractPythonCode: the python pattern, else the untagged pattern, else
\* null (matched = FALSE).
extractPythonCode(response) ==
    LET codeBlockMatch == matchFenced(response, Chars("python"))
    IN  IF codeBlockMatch.matched THEN codeBlockMatch
        ELSE matchFenced(response, <<>>)

\* `!code`: null and the empty string are both falsy.
NoCode(code) == ~code.matched \/ code.code = <<>>

(***************************************************************************)
(* ExpertRunner                                                            *)
(***************************************************************************)
\* `this.config.maxRetries || 5`: maxRetries 0 stands for an absent (or zero)
\* maxRetries, both falsy.
DefaultAttempts == 5
MaxAttemptsOf(config) ==
    IF config.maxRetries = 0 THEN DefaultAttempts ELSE config.maxRetries

\* collectStreamedResponse streams from the provider of these configs; for any
\* other config it returns the empty content without a call.
RunnerStreams(config) ==
    config.id \in {"openai", "anthropic", "openrouter"} \/ config.isCustom

\* What the environment can deliver for one streaming call.
\* threw: the call or the stream raised; usage: what onUsage was handed.
Delivered(content, usage) ==
    [threw |-> FALSE, content |-> content, usage |-> usage, error |-> None]
Thrown(error, usage) ==
    [threw |-> TRUE, content |-> "", usage |-> usage, error |-> error]
NoStream == Delivered("", ZeroUsage)

\* ExpertRunner.run up to the while loop.
NewRun(config, ref) ==
    [config |-> config, pc |-> "loop", attempts |-> 0, solved |-> FALSE,
     accumulatedUsage |-> ZeroUsage, finalResponse |-> "",
     executionOutput |-> "", lastError |-> "", workingMessages |-> ref,
     response |-> "", result |-> None]

Idle(config) ==
    [config |-> config, pc |-> "idle", attempts |-> 0, solved |-> FALSE,
     accumulatedUsage |-> ZeroUsage, finalResponse |-> "",
     executionOutput |-> "", lastError |-> "", workingMessages |-> 0,
     response |-> "", result |-> None]

\* Variant: the canonical answer is taken from the formatted response.
ExpertResultOfResponse(x) ==
    [providerId      |-> x.config.id,
     canonicalAnswer |-> canonicalizeAnswer(
                            IF x.solved
                            THEN formatSuccessResponse(x.finalResponse, x.executionOutput)
                            ELSE <<x.lastError>>),
     response        |-> IF x.solved
                         THEN formatSuccessResponse(x.finalResponse, x.executionOutput)
                         ELSE <<x.finalResponse>>,
     success         |-> x.solved,
     iterations      |-> x.attempts,
     usage           |-> x.accumulatedUsage,
     executionOutput |-> IF x.solved THEN x.executionOutput ELSE None,
     error           |-> IF x.solved THEN None ELSE x.lastError]

\* The ExpertResult built after the loop.  A sandbox output or an error text
\* is one token of the string that is canonicalized.
ExpertResultOf(x) ==
    [providerId      |-> x.config.id,
     canonicalAnswer |-> IF x.solved
                         THEN canonicalizeAnswer(<<x.executionOutput>>)
                         ELSE LET text == IF x.finalResponse # "" THEN x.finalResponse
                                          ELSE x.lastError
                              IN  canonicalizeAnswer(IF text = "" THEN <<>>
                                                     ELSE <<text>>),
     response        |-> IF x.solved
                         THEN formatSuccessResponse(x.finalResponse, x.executionOutput)
                         ELSE <<x.finalResponse>>,
     success         |-> x.solved,
     iterations      |-> x.attempts,
     usage           |-> x.accumulatedUsage,
     executionOutput |-> IF x.solved THEN x.executionOutput ELSE None,
     error           |-> IF x.solved THEN None ELSE x.lastError]

\* Variants of the loop condition: one attempt too many; no stop on success.
LoopContinuesOffByOne(x) == x.attempts <= MaxAttemptsOf(x.config) /\ ~x.solved
LoopContinuesAfterSuccess(x) == x.attempts < MaxAttemptsOf(x.config)

\* The loop condition of run.
LoopContinues(x) == x.attempts < MaxAttemptsOf(x.config) /\ ~x.solved

\* The top of the loop: either the next attempt starts (attempts++, the
\* streaming call is issued) or the loop ends and the result is returned.
LoopTop(x) ==
    IF LoopContinues(x)
    THEN [x EXCEPT !.attempts = @ + 1, !.pc = "generating"]
    ELSE [x EXCEPT !.pc = "returned", !.result = ExpertResultOf(x)]

\* Variant: the "code" step is emitted before the loop condition is tested.
LoopTopStepsUnguarded(x) == <<"code">>

\* Steps emitted by onProgress at the top of the loop (the "code" step).
LoopTopSteps(x) == IF LoopContinues(x) THEN <<"code">> ELSE <<>>

\* Provider calls issued at the top of the loop.
LoopTopCalls(x) == IF LoopContinues(x) /\ RunnerStreams(x.config) THEN 1 ELSE 0

\* Variant: `const workingMessages = messages`, the caller's array itself.
SharedRef(e) == 0

\* The array `const workingMessages = [...messages]` refers to.
WorkingRef(e) == e

\* The usage run adds for a call that returned.
AccumulateUsage(acc, usage) == AddUsage(acc, usage)

\* What the catch block of run records as lastError.
CaughtError(x, err) == err

\* lastError after an attempt without a code block.
NoCodeLastError(x) == x.lastError

\* Variant: only the turn describing the error is pushed.
PushErrorTurnOnly(transcript, response, errorTurn) == Append(transcript, errorTurn)

\* The transcript after a failed attempt.
PushRetry(transcript, response, errorTurn) ==
    transcript \o <<AssistantTurn(response), errorTurn>>


(***************************************************************************)
(* What an observer of one runner counts.                                  *)
(***************************************************************************)
NoAudit ==
    [calls |-> 0, reported |-> ZeroUsage, api |-> 0, nocode |-> 0,
     execfail |-> 0, execok |-> 0, afterOk |-> 0, lastFailure |-> None,
     steps |-> <<>>]

\* A streaming call was issued n times (0 or 1).
Called(a, n) ==
    [a EXCEPT !.calls = @ + n,
              !.afterOk = IF a.execok > 0 THEN @ + n ELSE @]

\* onProgress was called with steps of these actions, in this order.
Progressed(a, actions) == [a EXCEPT !.steps = @ \o actions]

AttemptsEnded(a) == a.api + a.nocode + a.execfail + a.execok

(***************************************************************************)
(* ExpertRunner.run, one step per resumption.                              *)
(***************************************************************************)
\* run is called: copy of the messages, "think" step, first iteration.
RunStart(e) ==
    /\ expert[e].pc = "idle"
    /\ LET ref == WorkingRef(e)
           x   == NewRun(expert[e].config, ref)
       IN  /\ heap' = [heap EXCEPT ![ref] = heap[0]]
           /\ expert' = [expert EXCEPT ![e] = LoopTop(x)]
           /\ stepCount' = stepCount + 1 + Len(LoopTopSteps(x))
           /\ audit' = [audit EXCEPT ![e] =
                          Progressed(Called(@, LoopTopCalls(x)),
                                     <<"think">> \o LoopTopSteps(x))]
    /\ UNCHANGED <<sandbox, calc, consensusMode, pendingSteps>>
    /\ UNCHANGED <<providers, task, phase, results, out, usageEvents,
                   consensus, raised>>

\* collectStreamedResponse settles: the stream ended or raised.
ProviderReturns(e, Outcomes) ==
    /\ expert[e].pc = "generating"
    /\ \E o \in (IF RunnerStreams(expert[e].config) THEN Outcomes ELSE {NoStream}) :
         LET x == expert[e]
             a == [audit[e] EXCEPT !.reported = AddUsage(@, o.usage)]
         IN  IF o.threw
             THEN \* catch (err): lastError, "error" step, next iteration
                  LET x1 == [x EXCEPT !.lastError = CaughtError(x, o.error)]
                      a1 == [a EXCEPT !.api = @ + 1, !.lastFailure = o.error]
                  IN  /\ expert' = [expert EXCEPT ![e] = LoopTop(x1)]
                      /\ heap' = heap
                      /\ stepCount' = stepCount + 1 + Len(LoopTopSteps(x1))
                      /\ audit' = [audit EXCEPT ![e] =
                                     Progressed(Called(a1, LoopTopCalls(x1)),
                                                <<"error">> \o LoopTopSteps(x1))]
             ELSE LET x1 == [x EXCEPT !.accumulatedUsage =
                                          AccumulateUsage(@, o.usage)]
                      code == extractPythonCode(TextOf(Segments(o.content)))
                  IN  IF NoCode(code)
                      THEN \* "error" step, two turns pushed, continue
                           LET x2 == [x1 EXCEPT !.lastError = NoCodeLastError(x1)]
                               a1 == [a EXCEPT !.nocode = @ + 1,
                                               !.lastFailure = NoCodeError]
                           IN  /\ heap' = [heap EXCEPT ![x.workingMessages] =
                                              PushRetry(@, o.content, NoCodeTurn)]
                               /\ expert' = [expert EXCEPT ![e] = LoopTop(x2)]
                               /\ stepCount' = stepCount + 1 + Len(LoopTopSteps(x2))
                               /\ audit' = [audit EXCEPT ![e] =
                                      Progressed(Called(a1, LoopTopCalls(x2)),
                                                 <<"error">> \o LoopTopSteps(x2))]
                      ELSE \* executePython(code) is awaited
                           /\ expert' = [expert EXCEPT ![e] =
                                  [x1 EXCEPT !.pc = "executing",
                                             !.response = o.content]]
                           /\ heap' = heap
                           /\ stepCount' = stepCount
                           /\ audit' = [audit EXCEPT ![e] =
                                  [a EXCEPT !.afterOk =
                                       IF a.execok > 0 THEN @ + 1 ELSE @]]
    /\ UNCHANGED <<sandbox, calc, consensusMode, pendingSteps>>
    /\ UNCHANGED <<providers, task, phase, results, out, usageEvents,
                   consensus, raised>>

\* executePython settles.
SandboxReturns(e, Executions) ==
    /\ expert[e].pc = "executing"
    /\ \E r \in Executions :
         LET x == expert[e]
         IN  IF r.success
             THEN \* "verify" step; solved
                  LET x1 == [x EXCEPT !.solved = TRUE,
                                      !.finalResponse = x.response,
                                      !.executionOutput = r.output]
                      a1 == [audit[e] EXCEPT !.execok = @ + 1]
                  IN  /\ expert' = [expert EXCEPT ![e] = LoopTop(x1)]
                      /\ heap' = heap
                      /\ stepCount' = stepCount + 1 + Len(LoopTopSteps(x1))
                      /\ audit' = [audit EXCEPT ![e] =
                                     Progressed(Called(a1, LoopTopCalls(x1)),
                                                <<"verify">> \o LoopTopSteps(x1))]
             ELSE \* lastError, "error" step, two turns pushed
                  LET x1 == [x EXCEPT !.lastError = r.output]
                      a1 == [audit[e] EXCEPT !.execfail = @ + 1,
                                             !.lastFailure = r.output]
                  IN  /\ heap' = [heap EXCEPT ![x.workingMessages] =
                                     PushRetry(@, x.response, ExecErrorTurn(r.output))]
                      /\ expert' = [expert EXCEPT ![e] = LoopTop(x1)]
                      /\ stepCount' = stepCount + 1 + Len(LoopTopSteps(x1))
                      /\ audit' = [audit EXCEPT ![e] =
                                     Progressed(Called(a1, LoopTopCalls(x1)),
                                                <<"error">> \o LoopTopSteps(x1))]
    /\ UNCHANGED <<sandbox, calc, consensusMode, pendingSteps>>
    /\ UNCHANGED <<providers, task, phase, results, out, usageEvents,
                   consensus, raised>>

(***************************************************************************)
(* SpecRunner: one ExpertRunner.run against every provider and sandbox     *)
(* behaviour.                                                              *)
(***************************************************************************)
Provider(id, isCustom, enabled) ==
    [id |-> id, isCustom |-> isCustom, enabled |-> enabled]

SystemTurn == Turn("system", <<"You are a code-based reasoning engine.">>)

RunnerConfigs ==
    {[id |-> p.id, isCustom |-> p.isCustom, enabled |-> TRUE, maxRetries |-> m] :
        p \in {Provider("openai", FALSE, TRUE), Provider("my-llm", TRUE, TRUE),
               Provider("gemini", FALSE, TRUE)},
        m \in 0..MaxConfiguredRetries}

RunnerOutcomes ==
    {Thrown("429 rate limit", u) : u \in UsageVals}
      \cup {Delivered(c, u) : c \in {"prose", "python", "plain"}, u \in UsageVals}

RunnerExecutions ==
    {[success |-> TRUE, output |-> "391"],
     [success |-> FALSE, output |-> "NameError"]}

InitRunner ==
    /\ \E c \in RunnerConfigs :
         /\ providers = <<c>>
         /\ expert = [e \in {1} |-> Idle(c)]
    /\ task = [isArray |-> FALSE, text |-> Chars("compute 17*23"), messages |-> <<>>]
    /\ phase = "runner"
    /\ heap = [r \in 0..1 |-> IF r = 0
                              THEN <<SystemTurn, Turn("user", Chars("compute 17*23"))>>
                              ELSE <<>>]
    /\ results = <<>>
    /\ out = <<>>
    /\ stepCount = 0
    /\ usageEvents = <<>>
    /\ consensus = <<>>
    /\ audit = [e \in {1} |-> NoAudit]
    /\ raised = FALSE
    /\ sandbox = None
    /\ calc = None
    /\ pendingSteps = <<>>
    /\ consensusMode = "auto"

RunnerGenerates == ProviderReturns(1, RunnerOutcomes)
RunnerExecutes == SandboxReturns(1, RunnerExecutions)

NextRunner ==
    \/ RunStart(1)
    \/ RunnerGenerates
    \/ RunnerExecutes

SpecRunner == InitRunner /\ [][NextRunner]_vars


(***************************************************************************)
(* consensus: levenshteinDistance and stringSimilarity.  A string is a     *)
(* tuple of characters.  A ratio is kept as numerator and denominator.     *)
(***************************************************************************)
MaxTextLen == 3   \* longest string compared by SpecSimilarity

\* All tuples over alphabet of length 0..n.
TextsUpTo(alphabet, n) == UNION {[1..k -> alphabet] : k \in 0..n}

\* Variant: the cell above is left out of the minimum.
CellWithoutUp(diag, left, up) == (IF diag <= left THEN diag ELSE left) + 1

\* matrix[i][j] for two different characters: Math.min of the three
\* neighbours, each plus one.
Cell(diag, left, up) ==
    LET m == IF diag <= left THEN diag ELSE left
    IN  (IF m <= up THEN m ELSE up) + 1

\* Row i of the matrix (columns 0..a.length at indices 1..a.length+1), filled
\* from the row above, left to right.
RECURSIVE FillRow(_, _, _, _)
FillRow(a, ch, above, row) ==
    IF Len(row) = Len(a) + 1 THEN row
    ELSE LET j == Len(row)
         IN  FillRow(a, ch, above,
                     Append(row, IF ch = a[j] THEN above[j]
                                 ELSE Cell(above[j], row[j], above[j + 1])))

RECURSIVE MatrixRow(_, _, _)
MatrixRow(a, b, i) ==
    IF i = 0 THEN [j \in 1..(Len(a) + 1) |-> j - 1]
    ELSE FillRow(a, b[i], MatrixRow(a, b, i - 1), <<i>>)

levenshteinDistance(a, b) == MatrixRow(a, b, Len(b))[Len(a) + 1]

\* 1 - distance / maxLen, and 1 for two empty strings.
stringSimilarity(a, b) ==
    LET maxLen == IF Len(a) >= Len(b) THEN Len(a) ELSE Len(b)
    IN  IF maxLen = 0 THEN [num |-> 1, den |-> 1]
        ELSE [num |-> maxLen - levenshteinDistance(a, b), den |-> maxLen]


(***************************************************************************)
(* consensus: ExactMatchAggregator and SemanticAggregator.                 *)
(***************************************************************************)
Ratio(num, den) == [num |-> num, den |-> den]

\* Variant: only the successful members are counted as votes.
ConsensusGroupOfSuccesses(canonicalAnswer, responses) ==
    [canonicalAnswer |-> canonicalAnswer,
     responses       |-> responses,
     voteCount       |-> Len(SelectSeq(responses, LAMBDA r : r.success)),
     averageSuccess  |-> Ratio(Len(SelectSeq(responses, LAMBDA r : r.success)),
                               Len(responses))]

ConsensusGroup(canonicalAnswer, responses) ==
    [canonicalAnswer |-> canonicalAnswer,
     responses       |-> responses,
     voteCount       |-> Len(responses),
     averageSuccess  |-> Ratio(Len(SelectSeq(responses, LAMBDA r : r.success)),
                               Len(responses))]

\* Variant: the comparator sorts by ascending vote count.
OutranksAscending(a, b) == a.voteCount < b.voteCount

\* The sort comparator puts a before b: more votes, or as many votes and a
\* greater success fraction.
Outranks(a, b) ==
    \/ a.voteCount > b.voteCount
    \/ /\ a.voteCount = b.voteCount
       /\ a.averageSuccess.num * b.averageSuccess.den
            > b.averageSuccess.num * a.averageSuccess.den

\* Variant: a group goes ahead of the groups it ties with.
RECURSIVE sortGroupsTiesReversed(_)
sortGroupsTiesReversed(groups) ==
    IF groups = <<>> THEN <<>>
    ELSE LET sorted == sortGroupsTiesReversed(SubSeq(groups, 1, Len(groups) - 1))
             g      == groups[Len(groups)]
             ahead  == SelectSeq(sorted, LAMBDA e : Outranks(e, g))
             behind == SelectSeq(sorted, LAMBDA e : ~Outranks(e, g))
         IN  ahead \o <<g>> \o behind

\* Array.sort with that comparator (stable): each group goes behind the
\* groups it does not outrank.
RECURSIVE sortGroups(_)
sortGroups(groups) ==
    IF groups = <<>> THEN <<>>
    ELSE LET sorted == sortGroups(SubSeq(groups, 1, Len(groups) - 1))
             g      == groups[Len(groups)]
             ahead  == SelectSeq(sorted, LAMBDA e : ~Outranks(g, e))
             behind == SelectSeq(sorted, LAMBDA e : Outranks(g, e))
         IN  ahead \o <<g>> \o behind

\* Variant: a key is entered for every result, seen before or not.
GroupKeysPerResult(rs) == [i \in 1..Len(rs) |-> rs[i].canonicalAnswer]

\* The keys of the Map, in insertion order.
RECURSIVE GroupKeys(_)
GroupKeys(rs) ==
    IF rs = <<>> THEN <<>>
    ELSE LET keys == GroupKeys(SubSeq(rs, 1, Len(rs) - 1))
             key  == rs[Len(rs)].canonicalAnswer
         IN  IF \E i \in 1..Len(keys) : keys[i] = key THEN keys ELSE Append(keys, key)

Summary(text, votes, total, groups) ==
    [text |-> text, votes |-> votes, total |-> total, groups |-> groups]

\* ExactMatchAggregator.buildSummary
exactSummary(groups, total) ==
    IF Len(groups) = 1
    THEN Summary("All N models agree on the answer.", total, total, 1)
    ELSE IF 2 * groups[1].voteCount > total
    THEN Summary("V/N models agree. G-1 alternative answer(s) found.",
                 groups[1].voteCount, total, Len(groups))
    ELSE Summary("No clear consensus. G different answers from N models.",
                 groups[1].voteCount, total, Len(groups))

ConsensusResult(strategy, winningAnswer, groups, total, summary) ==
    [strategy      |-> strategy,
     winningAnswer |-> winningAnswer,
     winningGroup  |-> groups[1],
     allGroups     |-> groups,
     totalExperts  |-> total,
     agreement     |-> Ratio(groups[1].voteCount, total),
     summary       |-> summary]

\* Variant: the canonical form of the winning group is returned.
canonicalOfGroup(winningGroup) == winningGroup.canonicalAnswer

\* winningAnswer of ExactMatchAggregator: winningGroup.responses[0].response
firstResponse(winningGroup) == winningGroup.responses[1].response

\* ExactMatchAggregator.aggregate
exactAggregate(rs) ==
    LET keys   == GroupKeys(rs)
        groups == sortGroups([k \in 1..Len(keys) |->
                     ConsensusGroup(keys[k],
                        SelectSeq(rs, LAMBDA r : r.canonicalAnswer = keys[k]))])
    IN  ConsensusResult("exact", firstResponse(groups[1]), groups,
                        Len(rs), exactSummary(groups, Len(rs)))

\* private similarityThreshold = 0.7
similarityThreshold == Ratio(7, 10)

\* Variant: a threshold of one half.
ReachesHalf(similarity) == 2 * similarity.num >= similarity.den

\* similarity >= this.similarityThreshold
ReachesThreshold(similarity) ==
    similarity.num * similarityThreshold.den >= similarityThreshold.num * similarity.den

\* Variant: the last cluster that matches is joined.
LastHome(matching) ==
    IF matching = {} THEN 0
    ELSE CHOOSE c \in matching : \A d \in matching : d <= c

\* The cluster the inner loop stops at: the first one that matches (0: none).
FirstHome(matching) ==
    IF matching = {} THEN 0
    ELSE CHOOSE c \in matching : \A d \in matching : c <= d

\* The clusters after the outer loop, in the order they were started.
RECURSIVE clustersOf(_)
clustersOf(rs) ==
    IF rs = <<>> THEN <<>>
    ELSE LET clusters == clustersOf(SubSeq(rs, 1, Len(rs) - 1))
             result   == rs[Len(rs)]
             home     == FirstHome({c \in 1..Len(clusters) :
                            ReachesThreshold(stringSimilarity(
                                result.canonicalAnswer,
                                clusters[c][1].canonicalAnswer))})
         IN  IF home # 0 THEN [clusters EXCEPT ![home] = Append(@, result)]
             ELSE Append(clusters, <<result>>)

\* cluster.reduce of the map callback: the result whose canonical answer
\* names the group.
RECURSIVE bestResult(_)
bestResult(cluster) ==
    IF Len(cluster) = 1 THEN cluster[1]
    ELSE LET best == bestResult(SubSeq(cluster, 1, Len(cluster) - 1))
             curr == cluster[Len(cluster)]
         IN  IF curr.success /\ ~best.success THEN curr
             ELSE IF Len(curr.response) > Len(best.response) THEN curr
             ELSE best

\* winningGroup.responses.reduce: the result whose response is returned.
RECURSIVE bestResponse(_)
bestResponse(responses) ==
    IF Len(responses) = 1 THEN responses[1]
    ELSE LET best == bestResponse(SubSeq(responses, 1, Len(responses) - 1))
             curr == responses[Len(responses)]
         IN  IF Len(curr.response) > Len(best.response) THEN curr ELSE best

\* SemanticAggregator.buildSummary
semanticSummary(groups, total) ==
    IF Len(groups) = 1
    THEN Summary("All N models provided semantically similar answers.", total, total, 1)
    ELSE IF 2 * groups[1].voteCount > total
    THEN Summary("V/N models gave similar answers.", groups[1].voteCount, total,
                 Len(groups))
    ELSE Summary("Diverse perspectives from N models across G clusters.",
                 groups[1].voteCount, total, Len(groups))

\* SemanticAggregator.aggregate
semanticAggregate(rs) ==
    LET clusters == clustersOf(rs)
        groups   == sortGroups([c \in 1..Len(clusters) |->
                       ConsensusGroup(bestResult(clusters[c]).canonicalAnswer,
                                      clusters[c])])
    IN  ConsensusResult("semantic", bestResponse(groups[1].responses).response,
                        groups, Len(rs), semanticSummary(groups, Len(rs)))


(***************************************************************************)
(* PoetiqOrchestrator                                                      *)
(***************************************************************************)
\* constructor: providers.filter(p => p.enabled)
EnabledOnly(list) == SelectSeq(list, LAMBDA p : p.enabled)

\* String.includes, on texts and keywords given word by word.
Includes(text, keyword) ==
    \/ keyword = <<>>
    \/ \E i \in 1..(Len(text) - Len(keyword) + 1) :
         /\ text[i] = keyword[1]
         /\ SubSeq(text, i, i + Len(keyword) - 1) = keyword

\* Array.prototype.join
RECURSIVE Join(_, _)
Join(texts, separator) ==
    IF texts = <<>> THEN <<>>
    ELSE IF Len(texts) = 1 THEN texts[1]
    ELSE Head(texts) \o separator \o Join(Tail(texts), separator)

\* The text of the user turns of a prompt (the prompt itself when a string).
UserText(userPrompt) ==
    IF ~userPrompt.isArray THEN userPrompt.text
    ELSE LET user == SelectSeq(userPrompt.messages, LAMBDA m : m.role = "user")
         IN  Join([i \in 1..Len(user) |-> user[i].content], <<" ">>)

QuantKeywords ==
    {Chars(keyword) : keyword \in {"tradingview", "pine script", "pinescript",
                                   "strategy", "backtest", "indicator"}}

isQuantTask(userPrompt) ==
    LET textToCheck == LowerText(UserText(userPrompt))
    IN  \E keyword \in QuantKeywords : Includes(textToCheck, keyword)

\* Variant: the empty provider list is not detected.
NeverNoneEnabled(enabledProviders) == FALSE

\* `enabledProviders.length === 0`
NoneEnabled(enabledProviders) == Len(enabledProviders) = 0

\* The orchestrator's own collectStreamedResponse streams from these only.
OrchestratorStreams(provider) == provider.id \in {"openai", "anthropic"}

\* [system prompt, ...userPrompt] or [system prompt, user turn]
InitialMessages(userPrompt) ==
    IF userPrompt.isArray THEN <<SystemTurn>> \o userPrompt.messages
    ELSE <<SystemTurn, Turn("user", userPrompt.text)>>

\* maxRetries of the experts of solveMultiProvider.
ExpertMaxRetries == 5
ExpertConfig(p) ==
    [id |-> p.id, isCustom |-> p.isCustom, enabled |-> p.enabled,
     maxRetries |-> ExpertMaxRetries]

RECURSIVE SumUsage(_)
SumUsage(rs) ==
    IF rs = <<>> THEN ZeroUsage ELSE AddUsage(Head(rs).usage, SumUsage(Tail(rs)))

\* Variant: only the successful results are added up.
TotalUsageOfSuccessful(rs) == SumUsage(SelectSeq(rs, LAMBDA r : r.success))

\* The loop `for (const result of results) totalUsage += result.usage`.
TotalUsage(rs) == SumUsage(rs)

\* Variant: no filter.
Unfiltered(rs) == rs

\* results.filter(r => r.success)
Successful(rs) == SelectSeq(rs, LAMBDA r : r.success)

\* Variant: resumes with the first settled promise (Promise.race / Promise.any).
AnySettled(xs) == \E e \in DOMAIN xs : xs[e].pc = "returned"

\* `await Promise.all(promises)` resumes when every promise has settled
\* (no promise of the orchestrator rejects).
AllSettled(xs) == \A e \in DOMAIN xs : xs[e].pc = "returned"

\* The array Promise.all resolves to: the results of the settled runs, in the
\* order of the promises.
SettledResults(xs) ==
    LET settled == SelectSeq([e \in 1..Len(xs) |-> e],
                             LAMBDA e : xs[e].pc = "returned")
    IN  [i \in 1..Len(settled) |-> xs[settled[i]].result]

chunkSize == 20

\* Variant: a last chunk shorter than chunkSize is not yielded.
yieldFullChunks(content) ==
    [k \in 1..(Len(content) \div chunkSize) |->
        [chunk |-> SubSeq(content, chunkSize * (k - 1) + 1, chunkSize * k)]]

\* yieldBufferedContent(content): the chunks content.slice(i, i + chunkSize)
\* for i = 0, chunkSize, ... below content.length, in the order yielded.
yieldBufferedContent(content) ==
    [k \in 1..((Len(content) + chunkSize - 1) \div chunkSize) |->
        [chunk |-> SubSeq(content, chunkSize * (k - 1) + 1,
                          IF chunkSize * k < Len(content) THEN chunkSize * k
                          ELSE Len(content))]]

Fragment(text) == [text |-> text]
NoProvidersMessage == Fragment("Error: No LLM providers enabled.")
AllFailedMessage == Fragment("All AI models failed to solve this problem.")
FallbackMessage == "I was unable to solve this problem after multiple attempts."

\* The fixed behaviours the providers show during a solve.
SolveUsage == [inputTokens |-> MaxTokens, outputTokens |-> 2 * MaxTokens]
SolveOutcomes ==
    {Thrown("503 unavailable", SolveUsage), Delivered("prose", SolveUsage),
     Delivered("python", SolveUsage)}
SolveExecutions ==
    {[success |-> TRUE, output |-> "391"],
     [success |-> FALSE, output |-> "NameError"]}

(***************************************************************************)
(* TaskRouter.  A text is a tuple of characters, Fence standing for three  *)
(* backticks.                                                              *)
(***************************************************************************)
STRUCTURED_KEYWORDS ==
    {Chars(keyword) : keyword \in
    {"calculate", "compute", "solve", "what is", "how many", "how much",
     "find the", "determine", "evaluate", "simplify", "factor",
     "python", "code", "program", "algorithm", "function",
     "math", "equation", "formula", "proof",
     "json", "xml", "parse", "format",
     "convert", "translate to",
     "list all", "enumerate", "count",
     "true or false", "yes or no",
     "regex", "pattern match"}}

OPEN_ENDED_KEYWORDS ==
    {Chars(keyword) : keyword \in
    {"explain", "describe", "discuss", "analyze", "compare",
     "what do you think", "opinion", "perspective",
     "summarize", "overview", "introduction",
     "how would you", "suggest", "recommend",
     "creative", "story", "poem", "essay",
     "brainstorm", "ideas for", "ways to",
     "pros and cons", "advantages", "disadvantages",
     "why do", "what are the reasons"}}

\* The user turns of the prompt joined by newlines (the prompt itself when a
\* string).
extractText(userPrompt) ==
    IF ~userPrompt.isArray THEN userPrompt.text
    ELSE LET user == SelectSeq(userPrompt.messages, LAMBDA m : m.role = "user")
         IN  Join([i \in 1..Len(user) |-> user[i].content], <<"\n">>)

\* text.length: the fence is three characters long.
textLength(text) == Len(text) + 2 * Cardinality({i \in 1..Len(text) : text[i] = Fence})

\* Variant: a code block weighs as much as one keyword.
codeBlockBonusOne(hasCodeBlock) == IF hasCodeBlock THEN 1 ELSE 0

\* `if (hasCodeBlock) structuredScore += 2`
codeBlockBonus(hasCodeBlock) == IF hasCodeBlock THEN 2 ELSE 0

\* The two scores of classifyTask for a lower-cased text, after the bonuses.
taskScores(text) ==
    LET hits(keywords) == Cardinality({k \in keywords : Includes(text, k)})
        hasCodeBlock   == Includes(text, <<Fence>>)
        hasNumbers     == \E i \in 1..Len(text) :
                             text[i] \in {"0", "1", "2", "3", "4", "5", "6", "7", "8", "9"}
        isShort        == textLength(text) < 100
    IN  [structured |-> hits(STRUCTURED_KEYWORDS)
                           + codeBlockBonus(hasCodeBlock)
                           + (IF hasNumbers /\ isShort THEN 1 ELSE 0),
         openEnded  |-> hits(OPEN_ENDED_KEYWORDS)]

classifyTask(userPrompt) ==
    LET text   == LowerText(extractText(userPrompt))
        scores == taskScores(text)
    IN  IF scores.structured > scores.openEnded THEN "structured"
        ELSE IF scores.openEnded > scores.structured THEN "open_ended"
        ELSE IF textLength(text) < 100 /\ Includes(text, <<"?">>) THEN "structured"
        ELSE "open_ended"

\* Variant: the mode is ignored.
selectByTaskType(taskType, mode) ==
    IF taskType = "structured" THEN "exact" ELSE "semantic"

selectConsensusStrategy(taskType, mode) ==
    IF mode = "exact" THEN "exact"
    ELSE IF mode = "semantic" THEN "semantic"
    ELSE IF taskType = "structured" THEN "exact" ELSE "semantic"


(***************************************************************************)
(* solveSingleProvider: its locals live in expert[1]; its transcript is    *)
(* `messages` itself (heap[0]).                                            *)
(***************************************************************************)
SingleMaxAttempts == 5

NewSingle(provider) ==
    [config |-> provider, pc |-> "loop", attempts |-> 0, solved |-> FALSE,
     accumulatedUsage |-> ZeroUsage, verifiedResponse |-> "",
     executionOutput |-> "", response |-> ""]

SingleContinues(x) == x.attempts < SingleMaxAttempts /\ ~x.solved

\* The steps ("complete", and "fail" when unsolved) and the fragments after
\* the loop of solveSingleProvider.
SingleTail(x) ==
    IF x.solved
    THEN [steps |-> 1,
          out   |-> yieldBufferedContent(
                       formatSuccessResponse(x.verifiedResponse, x.executionOutput))]
    ELSE [steps |-> 2, out |-> yieldBufferedContent(<<FallbackMessage>>)]

\* The top of the loop of solveSingleProvider, applied to the whole state.
SingleLoopTop(x, a, steps, h, events) ==
    /\ heap' = h
    /\ usageEvents' = events
    /\ raised' = raised
    /\ IF SingleContinues(x)
       THEN /\ expert' = [expert EXCEPT ![1] =
                            [x EXCEPT !.attempts = @ + 1, !.pc = "generating"]]
            /\ stepCount' = steps + 1
            /\ audit' = [audit EXCEPT ![1] =
                            Called(a, IF OrchestratorStreams(x.config) THEN 1 ELSE 0)]
            /\ out' = out
            /\ phase' = "single"
       ELSE /\ expert' = [expert EXCEPT ![1] = [x EXCEPT !.pc = "returned"]]
            /\ stepCount' = steps + SingleTail(x).steps
            /\ audit' = [audit EXCEPT ![1] = a]
            /\ out' = out \o SingleTail(x).out
            /\ phase' = "done"

\* collectStreamedResponse of the single-provider loop settles.
SingleGenerates ==
    /\ phase = "single"
    /\ expert[1].pc = "generating"
    /\ \E o \in (IF OrchestratorStreams(expert[1].config)
                 THEN SolveOutcomes ELSE {NoStream}) :
         LET x == expert[1]
             a == [audit[1] EXCEPT !.reported = AddUsage(@, o.usage)]
         IN  IF o.threw
             THEN \* no try/catch around the call: the exception leaves
                  \* solveSingleProvider and solveTask
                  /\ raised' = TRUE
                  /\ phase' = "done"
                  /\ expert' = [expert EXCEPT ![1] = [x EXCEPT !.pc = "threw"]]
                  /\ audit' = [audit EXCEPT ![1] =
                                  [a EXCEPT !.api = @ + 1, !.lastFailure = o.error]]
                  /\ UNCHANGED <<heap, usageEvents, stepCount, out>>
             ELSE LET x1 == [x EXCEPT !.accumulatedUsage = AddUsage(@, o.usage)]
                      events == Append(usageEvents, x1.accumulatedUsage)
                      code == extractPythonCode(TextOf(Segments(o.content)))
                  IN  IF NoCode(code)
                      THEN SingleLoopTop(x1,
                              [a EXCEPT !.nocode = @ + 1, !.lastFailure = NoCodeError],
                              stepCount + 1,
                              [heap EXCEPT ![0] = PushRetry(@, o.content, NoCodeTurn)],
                              events)
                      ELSE /\ expert' = [expert EXCEPT ![1] =
                                  [x1 EXCEPT !.pc = "executing", !.response = o.content]]
                           /\ stepCount' = stepCount + 1
                           /\ usageEvents' = events
                           /\ audit' = [audit EXCEPT ![1] = a]
                           /\ UNCHANGED <<heap, out, phase, raised>>
    /\ UNCHANGED <<sandbox, calc, consensusMode, pendingSteps>>
    /\ UNCHANGED <<providers, task, results, consensus>>

\* executePython of the single-provider loop settles.
SingleExecutes ==
    /\ phase = "single"
    /\ expert[1].pc = "executing"
    /\ \E r \in SolveExecutions :
         LET x == expert[1]
         IN  IF r.success
             THEN SingleLoopTop([x EXCEPT !.solved = TRUE,
                                          !.verifiedResponse = x.response,
                                          !.executionOutput = r.output],
                                [audit[1] EXCEPT !.execok = @ + 1],
                                stepCount + 1, heap, usageEvents)
             ELSE SingleLoopTop(x,
                                [audit[1] EXCEPT !.execfail = @ + 1,
                                                 !.lastFailure = r.output],
                                stepCount + 1,
                                [heap EXCEPT ![0] =
                                    PushRetry(@, x.response, ExecErrorTurn(r.output))],
                                usageEvents)
    /\ UNCHANGED <<sandbox, calc, consensusMode, pendingSteps>>
    /\ UNCHANGED <<providers, task, results, consensus>>


(***************************************************************************)
(* solveMultiProvider                                                      *)
(***************************************************************************)
RunningMessage(n) == [text |-> "Running AI models in parallel", n |-> n]

\* The aggregator of the strategy, called on the successful results.
runConsensus(strategy, successfulResults) ==
    IF strategy = "exact" THEN exactAggregate(successfulResults)
    ELSE semanticAggregate(successfulResults)

\* The consensus part of the stream: the headline, the models that agree, the
\* winning answer, and the note on the other groups.
ConsensusFragments(verdict) ==
    LET split  == Len(verdict.allGroups) > 1
        agreed == verdict.winningGroup.responses
    IN  <<[text |-> "Consensus", unanimous |-> ~split,
           agreement |-> verdict.agreement]>>
        \o (IF split
            THEN <<[text |-> "Models agreeing",
                    models |-> [i \in 1..Len(agreed) |-> agreed[i].providerId]]>>
            ELSE <<>>)
        \o yieldBufferedContent(verdict.winningAnswer)
        \o (IF split
            THEN <<Fragment("---"),
                   [text |-> "Alternative perspectives",
                    others |-> Len(verdict.allGroups) - 1,
                    summary |-> verdict.summary]>>
            ELSE <<>>)

\* Promise.all resumed: totals, per-result steps, then failure or consensus.
MultiJoin ==
    /\ phase = "multi"
    /\ AllSettled(expert)
    /\ LET rs == SettledResults(expert)
           n  == Len(rs)
           ok == Successful(rs)
           strategy == selectConsensusStrategy(classifyTask(task), consensusMode)
       IN  /\ results' = rs
           /\ usageEvents' = Append(usageEvents, TotalUsage(rs))
           /\ IF Len(ok) = 0
              THEN /\ stepCount' = stepCount + n + 1
                   /\ out' = Append(out, AllFailedMessage)
                   /\ consensus' = consensus
              ELSE /\ stepCount' = stepCount + n + 2
                   /\ consensus' = Append(consensus,
                                          [results |-> ok,
                                           verdict |-> runConsensus(strategy, ok)])
                   /\ out' = out \o ConsensusFragments(runConsensus(strategy, ok))
    /\ phase' = "done"
    /\ UNCHANGED <<sandbox, calc, consensusMode, pendingSteps>>
    /\ UNCHANGED <<providers, task, expert, heap, audit, raised>>

MultiGenerates(e) == phase = "multi" /\ ProviderReturns(e, SolveOutcomes)
MultiExecutes(e) == phase = "multi" /\ SandboxReturns(e, SolveExecutions)

(***************************************************************************)
(* The domain pipeline (solveQuantTask)                                    *)
(***************************************************************************)
\* What validatePineScript finds in the texts a coder can answer with.
PineFeatures(text) ==
    CASE text = "pine-full"    -> {"block", "version", "entry", "exit", "input"}
      [] text = "pine-indicator" -> {"block", "version", "indicator"}
      [] text = "pine-bare"    -> {"entry"}
      [] OTHER                 -> {}

validatePineScript(text) ==
    LET f == PineFeatures(text)
        works == "indicator" \in f \/ ("entry" \in f /\ "exit" \in f)
    IN  [hasPineCodeBlock |-> "block" \in f,
         hasVersionDirective |-> "version" \in f,
         hasStrategyEntry |-> "entry" \in f,
         hasStrategyExit |-> "exit" \in f,
         isIndicator |-> "indicator" \in f,
         score |-> (IF "block" \in f THEN 2 ELSE 0) + (IF "version" \in f THEN 2 ELSE 0)
                   + (IF works THEN 3 ELSE 0) + (IF "entry" \in f THEN 1 ELSE 0)
                   + (IF "exit" \in f THEN 1 ELSE 0) + (IF "input" \in f THEN 1 ELSE 0)]

NoValidation == validatePineScript("")

\* Validation notes are yielded when one of the four checks fails.
HasValidationIssues(v) ==
    \/ ~v.hasPineCodeBlock
    \/ ~v.hasVersionDirective
    \/ (~v.isIndicator /\ ~v.hasStrategyEntry)
    \/ (~v.isIndicator /\ ~v.hasStrategyExit)

NewPipeline(provider) ==
    [config |-> provider, pc |-> "analyst", accumulatedUsage |-> ZeroUsage,
     strategyPlan |-> "", result |-> None]

QuantFailure(x, error) ==
    [providerId |-> x.config.id, strategyPlan |-> "", pineScriptCode |-> "",
     success |-> FALSE, usage |-> x.accumulatedUsage, validation |-> NoValidation,
     error |-> error]

QuantSuccess(x, code) ==
    [providerId |-> x.config.id, strategyPlan |-> x.strategyPlan,
     pineScriptCode |-> code, success |-> TRUE, usage |-> x.accumulatedUsage,
     validation |-> validatePineScript(code), error |-> None]

QuantOutcomes ==
    {Thrown("503 unavailable", SolveUsage), Delivered("plan", SolveUsage),
     Delivered("pine-full", SolveUsage), Delivered("pine-bare", SolveUsage)}

StreamCalls(provider) == IF OrchestratorStreams(provider) THEN 1 ELSE 0

\* runQuantPipelineForProvider: one of its two calls settles.
QuantReturns(e) ==
    /\ phase = "quant"
    /\ expert[e].pc \in {"analyst", "coder"}
    /\ \E o \in (IF OrchestratorStreams(expert[e].config)
                 THEN QuantOutcomes ELSE {NoStream}) :
         LET x == expert[e]
             a == [audit[e] EXCEPT !.reported = AddUsage(@, o.usage)]
         IN  IF o.threw
             THEN \* catch: "error" step, failure result
                  /\ expert' = [expert EXCEPT ![e] =
                         [x EXCEPT !.pc = "returned", !.result = QuantFailure(x, o.error)]]
                  /\ stepCount' = stepCount + 1
                  /\ audit' = [audit EXCEPT ![e] = [a EXCEPT !.api = @ + 1]]
             ELSE LET x1 == [x EXCEPT !.accumulatedUsage = AddUsage(@, o.usage)]
                  IN  IF x.pc = "analyst"
                      THEN \* "verify" and "code" steps, the coder call is issued
                           /\ expert' = [expert EXCEPT ![e] =
                                  [x1 EXCEPT !.pc = "coder", !.strategyPlan = o.content]]
                           /\ stepCount' = stepCount + 2
                           /\ audit' = [audit EXCEPT ![e] = Called(a, StreamCalls(x.config))]
                      ELSE \* validation, "verify" step, success result
                           /\ expert' = [expert EXCEPT ![e] =
                                  [x1 EXCEPT !.pc = "returned",
                                             !.result = QuantSuccess(x1, o.content)]]
                           /\ stepCount' = stepCount + 1
                           /\ audit' = [audit EXCEPT ![e] = a]
    /\ UNCHANGED <<sandbox, calc, consensusMode, pendingSteps>>
    /\ UNCHANGED <<providers, task, phase, heap, results, out, usageEvents,
                   consensus, raised>>

\* Variant: the first result is taken whatever its score.
FirstIndex(rs) ==
    CHOOSE i \in 1..Len(rs) : \A j \in 1..Len(rs) : i <= j

\* Index of the first successful result with the highest score
\* (Array.sort is stable, descending by score).
BestIndex(rs) ==
    CHOOSE i \in 1..Len(rs) :
        /\ \A j \in 1..Len(rs) : rs[j].validation.score <= rs[i].validation.score
        /\ \A j \in 1..(i - 1) : rs[j].validation.score < rs[i].validation.score

selectBestQuantResult(rs) ==
    LET ok == Successful(rs)
    IN  IF Len(ok) = 0 THEN rs[1]
        ELSE IF Len(ok) = 1 THEN ok[1]
        ELSE ok[BestIndex(ok)]

GuideFragments == yieldBufferedContent(<<"How to Test & Iterate">>)

\* What solveQuantTask yields for the selected result.
QuantFragments(best, nSuccessful) ==
    (IF nSuccessful > 1
     THEN <<[text |-> "Multi-Model Consensus", selected |-> best.providerId]>>
     ELSE <<>>)
    \o <<Fragment("## Strategy Analysis")>>
    \o yieldBufferedContent(<<best.strategyPlan>>)
    \o <<Fragment("## Pine Script V6 Implementation")>>
    \o yieldBufferedContent(<<best.pineScriptCode>>)
    \o (IF HasValidationIssues(best.validation)
        THEN <<Fragment("Validation Notes")>> ELSE <<>>)
    \o GuideFragments

QuantAllFailedMessage == Fragment("All AI models failed to generate Pine Script code.")

\* Promise.all of the pipelines resumed.
QuantJoin ==
    /\ phase = "quant"
    /\ AllSettled(expert)
    /\ LET rs == SettledResults(expert)
           ok == Successful(rs)
       IN  /\ results' = rs
           /\ usageEvents' = Append(usageEvents, TotalUsage(rs))
           /\ IF Len(ok) = 0
              THEN /\ stepCount' = stepCount + 1
                   /\ out' = Append(out, QuantAllFailedMessage)
              ELSE /\ stepCount' = stepCount + 4
                   /\ out' = out \o QuantFragments(selectBestQuantResult(rs), Len(ok))
    /\ phase' = "done"
    /\ UNCHANGED <<sandbox, calc, consensusMode, pendingSteps>>
    /\ UNCHANGED <<providers, task, expert, heap, consensus, audit, raised>>

\* solveQuantTaskSingleProvider: the analyst stream or the coder stream ends.
\* The chunks are yielded as they arrive; nothing catches a provider error.
SingleQuantReturns ==
    /\ phase = "quant1"
    /\ expert[1].pc \in {"analyst", "coder"}
    /\ \E o \in (IF OrchestratorStreams(expert[1].config)
                 THEN QuantOutcomes ELSE {NoStream}) :
         LET x == expert[1]
             a == [audit[1] EXCEPT !.reported = AddUsage(@, o.usage)]
         IN  IF o.threw
             THEN /\ raised' = TRUE
                  /\ phase' = "done"
                  /\ expert' = [expert EXCEPT ![1] = [x EXCEPT !.pc = "threw"]]
                  /\ audit' = [audit EXCEPT ![1] = [a EXCEPT !.api = @ + 1]]
                  /\ UNCHANGED <<stepCount, out, usageEvents>>
             ELSE LET x1 == [x EXCEPT !.accumulatedUsage = AddUsage(@, o.usage)]
                  IN  /\ raised' = raised
                      /\ usageEvents' = Append(usageEvents, x1.accumulatedUsage)
                      /\ IF x.pc = "analyst"
                         THEN /\ expert' = [expert EXCEPT ![1] =
                                     [x1 EXCEPT !.pc = "coder",
                                                !.strategyPlan = o.content]]
                              /\ stepCount' = stepCount + 2
                              /\ out' = out \o yieldBufferedContent(<<o.content>>)
                                            \o <<Fragment("---"),
                                                 Fragment("## Pine Script V6 Implementation")>>
                              /\ audit' = [audit EXCEPT ![1] =
                                              Called(a, StreamCalls(x.config))]
                              /\ phase' = phase
                         ELSE /\ expert' = [expert EXCEPT ![1] =
                                     [x1 EXCEPT !.pc = "returned"]]
                              /\ stepCount' = stepCount + 3
                              /\ out' = out \o yieldBufferedContent(<<o.content>>)
                                            \o (IF HasValidationIssues(
                                                     validatePineScript(o.content))
                                                THEN <<Fragment("Validation Notes")>>
                                                ELSE <<>>)
                                            \o GuideFragments
                              /\ audit' = [audit EXCEPT ![1] = a]
                              /\ phase' = "done"
    /\ UNCHANGED <<sandbox, calc, consensusMode, pendingSteps>>
    /\ UNCHANGED <<providers, task, heap, results, consensus>>


(***************************************************************************)
(* solveTask, up to the first await of the path it takes.                  *)
(***************************************************************************)
\* solveQuantTask
StartQuant ==
    LET n == Len(providers)
    IN  IF NoneEnabled(providers)
        THEN /\ out' = <<NoProvidersMessage>>
             /\ phase' = "done"
             /\ UNCHANGED <<expert, heap, stepCount, audit>>
        ELSE IF n = 1
        THEN /\ expert' = [e \in {1} |-> NewPipeline(providers[1])]
             /\ audit' = [e \in {1} |-> Called(NoAudit, StreamCalls(providers[1]))]
             /\ stepCount' = stepCount + 2
             /\ out' = <<Fragment("## Strategy Analysis")>>
             /\ phase' = "quant1"
             /\ heap' = heap
        ELSE /\ expert' = [e \in 1..n |-> NewPipeline(providers[e])]
             /\ audit' = [e \in 1..n |-> Called(NoAudit, StreamCalls(providers[e]))]
             /\ stepCount' = stepCount + 1 + n + n
             /\ out' = <<[text |-> "Running Quant Solver pipeline", n |-> n]>>
             /\ phase' = "quant"
             /\ heap' = heap

\* solveSingleProvider up to its first call
StartSingle ==
    LET x == NewSingle(providers[1])
    IN  /\ heap' = [r \in {0} |-> InitialMessages(task)]
        /\ expert' = [e \in {1} |-> [x EXCEPT !.attempts = 1, !.pc = "generating"]]
        /\ audit' = [e \in {1} |-> Called(NoAudit, StreamCalls(providers[1]))]
        /\ stepCount' = stepCount + 2
        /\ out' = out
        /\ phase' = "single"

\* solveMultiProvider up to Promise.all: every runner.run is called in turn
\* and runs to its first await.
StartMulti ==
    LET n == Len(providers)
        messages == InitialMessages(task)
        x(e) == NewRun(ExpertConfig(providers[e]), WorkingRef(e))
    IN  /\ heap' = [r \in 0..n |-> messages]
        /\ expert' = [e \in 1..n |-> LoopTop(x(e))]
        /\ audit' = [e \in 1..n |->
                        Progressed(Called(NoAudit, LoopTopCalls(x(e))),
                                   <<"think">> \o LoopTopSteps(x(e)))]
        /\ stepCount' = stepCount + 1 + n + 2 * n
        /\ out' = <<RunningMessage(n)>>
        /\ phase' = "multi"

SolveTask ==
    /\ phase = "called"
    /\ IF isQuantTask(task) THEN StartQuant
       ELSE IF NoneEnabled(providers)
       THEN /\ out' = <<NoProvidersMessage>>
            /\ phase' = "done"
            /\ UNCHANGED <<expert, heap, stepCount, audit>>
       ELSE IF Len(providers) = 1 THEN StartSingle
       ELSE StartMulti
    /\ UNCHANGED <<sandbox, calc, consensusMode, pendingSteps>>
    /\ UNCHANGED <<providers, task, results, usageEvents, consensus, raised>>

(***************************************************************************)
(* SpecSolve: one solveTask call, for the settings and tasks below.        *)
(***************************************************************************)
OpenAI == Provider("openai", FALSE, TRUE)
Claude == Provider("anthropic", FALSE, TRUE)
Router == Provider("openrouter", FALSE, TRUE)
Custom == Provider("my-llm", TRUE, TRUE)
Off(p) == [p EXCEPT !.enabled = FALSE]

\* The provider lists of the settings.  The consensus mode of the settings
\* is "auto", and "semantic" with the list that has the custom provider.
ProviderLists ==
    {<<>>, <<Off(OpenAI), Off(Claude)>>,
     <<OpenAI>>, <<Off(OpenAI), Claude>>, <<Router>>,
     <<OpenAI, Claude>>, <<Claude, Off(OpenAI), Custom>>}

StringPrompt(text) == [isArray |-> FALSE, text |-> text, messages |-> <<>>]
ArrayPrompt(messages) == [isArray |-> TRUE, text |-> <<>>, messages |-> messages]

Tasks ==
    {StringPrompt(Chars("Backtest my Strategy")),
     ArrayPrompt(<<Turn("assistant", Chars("a strategy then")),
                   Turn("user", Chars("what is 2+2"))>>),
     ArrayPrompt(<<Turn("assistant", Chars("a strategy then")),
                   Turn("user", Chars("write a pine")),
                   Turn("user", Chars("script"))>>)}

InitSolve ==
    /\ \E list \in ProviderLists :
         /\ providers = EnabledOnly(list)
         /\ consensusMode = IF Custom \in {list[i] : i \in 1..Len(list)}
                            THEN "semantic" ELSE "auto"
    /\ task \in Tasks
    /\ phase = "called"
    /\ expert = <<>>
    /\ heap = <<>>
    /\ results = <<>>
    /\ out = <<>>
    /\ stepCount = 0
    /\ usageEvents = <<>>
    /\ consensus = <<>>
    /\ audit = <<>>
    /\ raised = FALSE
    /\ sandbox = None
    /\ calc = None
    /\ pendingSteps = <<>>

NextSolve ==
    \/ SolveTask
    \/ SingleGenerates
    \/ SingleExecutes
    \/ \E e \in DOMAIN expert : MultiGenerates(e)
    \/ \E e \in DOMAIN expert : MultiExecutes(e)
    \/ MultiJoin
    \/ \E e \in DOMAIN expert : QuantReturns(e)
    \/ QuantJoin
    \/ SingleQuantReturns

SpecSolve == InitSolve /\ [][NextSolve]_vars


(***************************************************************************)
(* Properties                                                              *)
(***************************************************************************)
Returned(e) == expert[e].pc = "returned"

\* solveTask took the generic multi-provider path.
MultiPath == ~isQuantTask(task) /\ Len(providers) >= 2

RECURSIVE SumOver(_, _)
SumOver(S, f) ==
    IF S = {} THEN 0
    ELSE LET e == CHOOSE e \in S : TRUE IN f[e] + SumOver(S \ {e}, f)

\* C1: a failing provider call never makes solveTask raise to its caller,
\* on any solve path.
C1_NeverRaises == ~raised

\* C2: run makes at most maxRetries attempts (5 when maxRetries is not
\* configured); every ended attempt, whatever its outcome, used exactly one
\* unit of the one budget; the returned iterations is the number of attempts
\* made and lies in 1..maxRetries; a failed run has used the whole budget.
C2_AttemptBudget ==
    \A e \in DOMAIN expert :
        LET x == expert[e]
            a == audit[e]
            budget == IF x.config.maxRetries = 0 THEN 5 ELSE x.config.maxRetries
            inFlight == IF x.pc \in {"generating", "executing"} THEN 1 ELSE 0
        IN  /\ x.attempts <= budget
            /\ x.attempts = AttemptsEnded(a) + inFlight
            /\ Returned(e) =>
                 /\ x.result.iterations = AttemptsEnded(a)
                 /\ 1 <= x.result.iterations
                 /\ x.result.iterations <= budget
                 /\ ~x.result.success => a.api + a.nocode + a.execfail = budget

C2_Witness ==
    /\ Returned(1)
    /\ expert[1].config.maxRetries = 0
    /\ expert[1].result.iterations = 5
    /\ audit[1].api > 0 /\ audit[1].nocode > 0 /\ audit[1].execfail > 0

\* C3: run returns success exactly when one attempt's code ran successfully
\* in the sandbox; nothing is called or executed after that attempt; a first
\* response whose code runs successfully gives iterations = 1.
C3_SuccessStopsLoop ==
    \A e \in DOMAIN expert :
        LET x == expert[e]
            a == audit[e]
        IN  /\ a.execok <= 1
            /\ a.afterOk = 0
            /\ Returned(e) =>
                 /\ x.result.success <=> a.execok = 1
                 /\ (a.execok = 1 /\ a.api + a.nocode + a.execfail = 0)
                       => x.result.iterations = 1

C3_Witness ==
    /\ Returned(1)
    /\ expert[1].result.success
    /\ expert[1].result.iterations = 1
    /\ audit[1].calls = 1

\* C4: a run that exhausts its budget returns success=false with the error of
\* its last failed attempt, whatever the kind of that failure.
C4_LastErrorCarried ==
    \A e \in DOMAIN expert :
        (Returned(e) /\ ~expert[e].result.success)
            => expert[e].result.error = audit[e].lastFailure

\* C9: the usage an expert returns is the sum of the usage reported by every
\* provider call it made, calls that ended in an error included.
C9_UsageIsSumOfReported ==
    \A e \in DOMAIN expert :
        Returned(e) => expert[e].result.usage = audit[e].reported


\* C5: in the multi-provider solve, the aggregation, the total-usage emission
\* and the streaming of the answer happen only after every expert has returned,
\* and every expert has run to its own end (success or exhausted budget): no
\* run is cancelled or cut short by another expert's failure.
C5_JoinAfterAllExperts ==
    (MultiPath /\ (phase = "done" \/ results # <<>> \/ usageEvents # <<>>
                     \/ consensus # <<>> \/ Len(out) > 1))
        => /\ Len(results) = Len(providers)
           /\ \A e \in 1..Len(providers) :
                /\ Returned(e)
                /\ results[e] = expert[e].result
                /\ audit[e].execok = 1 \/ AttemptsEnded(audit[e]) = 5

C5_Witness ==
    /\ MultiPath
    /\ phase = "done"
    /\ ~results[1].success /\ results[1].iterations = 5
    /\ results[2].success /\ results[2].iterations = 5

\* C6: each expert works on its own copy of the transcript: the message list
\* handed to the runners never changes, and a runner's transcript holds the
\* initial messages followed by the retry turns of that runner alone.
C6_PrivateTranscripts ==
    (MultiPath /\ phase # "called")
        => /\ heap[0] = InitialMessages(task)
           /\ \A e \in DOMAIN expert :
                LET ref == expert[e].workingMessages
                    initial == InitialMessages(task)
                IN  /\ ref # 0
                    /\ \A f \in DOMAIN expert \ {e} : expert[f].workingMessages # ref
                    /\ Len(heap[ref]) =
                          Len(initial) + 2 * (audit[e].nocode + audit[e].execfail)
                    /\ SubSeq(heap[ref], 1, Len(initial)) = initial

C6_Witness ==
    /\ MultiPath
    /\ phase = "multi"
    /\ audit[1].nocode + audit[1].execfail = 1
    /\ audit[2].nocode + audit[2].execfail = 3
    /\ expert[1].pc = "generating" /\ expert[2].pc = "generating"
    /\ heap[0] = InitialMessages(task)

\* C7: after the experts have settled, the aggregator runs exactly when at
\* least one expert succeeded, once, on exactly the successful results; when
\* none succeeded the only further fragment is the terminal failure message.
C7_AggregatesSuccessfulOnly ==
    (MultiPath /\ phase = "done")
        => LET winners == {e \in DOMAIN expert : audit[e].execok = 1}
           IN  IF winners = {}
               THEN /\ consensus = <<>>
                    /\ out = <<RunningMessage(Len(providers)), AllFailedMessage>>
               ELSE /\ Len(consensus) = 1
                    /\ Len(consensus[1].results) = Cardinality(winners)
                    /\ \A i \in 1..Len(consensus[1].results) :
                         consensus[1].results[i].success
                    /\ \A e \in winners :
                         \E i \in 1..Len(consensus[1].results) :
                            consensus[1].results[i] = expert[e].result
                    /\ \A i \in 1..Len(out) : out[i] # AllFailedMessage

C7_Witness ==
    /\ MultiPath
    /\ phase = "done"
    /\ Len(results) = 2
    /\ ~results[1].success /\ results[2].success
    /\ Len(consensus) = 1
    /\ consensus[1].results = <<results[2]>>

\* C8: the total token usage a multi-provider solve emits is the sum of the
\* usage of every expert that was run, failed experts included.
C8_TotalUsageOverAllExperts ==
    (MultiPath /\ phase = "done")
        => /\ Len(usageEvents) = 1
           /\ usageEvents[1].inputTokens =
                SumOver(DOMAIN expert,
                        [e \in DOMAIN expert |-> expert[e].accumulatedUsage.inputTokens])
           /\ usageEvents[1].outputTokens =
                SumOver(DOMAIN expert,
                        [e \in DOMAIN expert |-> expert[e].accumulatedUsage.outputTokens])

C8_Witness ==
    /\ MultiPath
    /\ phase = "done"
    /\ ~results[1].success /\ results[1].usage.inputTokens > 0
    /\ results[2].success
    /\ usageEvents[1].inputTokens > results[2].usage.inputTokens

\* C10: with no enabled provider solveTask yields exactly one fragment, the
\* terminal error message, emits no reasoning step and no token usage, makes
\* no provider call and does not raise, for every task, domain tasks included.
C10_NoProviders ==
    (Len(providers) = 0)
        => /\ stepCount = 0
           /\ usageEvents = <<>>
           /\ DOMAIN audit = {}
           /\ ~raised
           /\ phase \in {"called", "done"}
           /\ phase = "called" => out = <<>>
           /\ phase = "done" => out = <<NoProvidersMessage>>

C10_Witness ==
    /\ Len(providers) = 0
    /\ phase = "done"
    /\ isQuantTask(task)
    /\ Len(out) = 1


(***************************************************************************)
(* The orchestrator's variables while another unit is exercised alone.     *)
(***************************************************************************)
orchestratorVars == <<providers, consensusMode, pendingSteps, task, phase, expert, heap, results, out,
                      stepCount, usageEvents, consensus, audit, raised>>

AtRest ==
    /\ providers = <<>>
    /\ pendingSteps = <<>>
    /\ consensusMode = "auto"
    /\ task = None
    /\ phase = "idle"
    /\ expert = <<>>
    /\ heap = <<>>
    /\ results = <<>>
    /\ out = <<>>
    /\ stepCount = 0
    /\ usageEvents = <<>>
    /\ consensus = <<>>
    /\ audit = <<>>
    /\ raised = FALSE

(***************************************************************************)
(* ExpertRunner.executePython.  One call: the executor of the promise runs *)
(* to its end, then the handlers of the child process and the timer run,   *)
(* one at a time, in any order the platform can produce.  A text is a      *)
(* tuple of tokens; " " and "\n" are the whitespace tokens.                *)
(***************************************************************************)
MaxChunks == 2   \* data events delivered per stream of the child

ExecResult(success, output) == [success |-> success, output |-> output]

TimeoutMessage == <<"Execution timed out (10 second limit)">>
NoOutputMessage == <<"Code executed successfully (no output)">>

\* exitCode of the close event; "null" when the child was ended by a signal.
ExitCodes == {"0", "1", "null"}

NewSandbox ==
    [pc |-> "called", resolved |-> FALSE, timer |-> "unset", tempFile |-> "absent",
     child |-> "none", closed |-> FALSE, errored |-> FALSE,
     stdout |-> <<>>, stderr |-> <<>>, delivered |-> <<>>,
     \* observed from outside:
     resolves |-> 0, cleanups |-> 0, timedOut |-> FALSE, late |-> 0,
     exitCode |-> "none", events |-> <<>>]

\* Variant: cleanup clears the timer and leaves the file.
cleanupTimerOnly(s) ==
    [s EXCEPT !.timer = IF @ \in {"pending", "fired"} THEN "cleared" ELSE @,
              !.cleanups = @ + 1]

\* cleanup: clearTimeout when a timer was set; unlinkSync, its error swallowed
\* (the file that was never written is not there to remove).
cleanup(s) ==
    [s EXCEPT !.timer = IF @ \in {"pending", "fired"} THEN "cleared" ELSE @,
              !.tempFile = "absent",
              !.cleanups = @ + 1]

\* resolve of the promise: the first value settles it (delivered holds it).
resolve(s, result) ==
    [s EXCEPT !.delivered = IF @ = <<>> THEN <<result>> ELSE @,
              !.resolves = @ + 1]

\* Variant: no guard, every event cleans up and resolves.
safeResolveUnguarded(s, result) ==
    resolve(cleanup([s EXCEPT !.resolved = TRUE]), result)

safeResolve(s, result) ==
    IF ~s.resolved
    THEN resolve(cleanup([s EXCEPT !.resolved = TRUE]), result)
    ELSE [s EXCEPT !.late = @ + 1]

\* Variant: an exit without a code counts as a success.
onCloseNullIsZero(s, exitCode) ==
    LET out1 == trim(s.stdout)
        err1 == trim(s.stderr)
        output == out1 \o (IF err1 # <<>> THEN <<"\n[stderr]: ">> \o err1 ELSE <<>>)
    IN  IF exitCode \in {"0", "null"}
        THEN safeResolve(s, ExecResult(TRUE, IF output # <<>> THEN output
                                             ELSE NoOutputMessage))
        ELSE safeResolve(s, ExecResult(FALSE,
                 IF err1 # <<>> THEN err1
                 ELSE <<"Process exited with code ", exitCode>>))

\* The "close" handler.
onClose(s, exitCode) ==
    LET out1 == trim(s.stdout)
        err1 == trim(s.stderr)
        output == out1 \o (IF err1 # <<>> THEN <<"\n[stderr]: ">> \o err1 ELSE <<>>)
    IN  IF exitCode = "0"
        THEN safeResolve(s, ExecResult(TRUE, IF output # <<>> THEN output
                                             ELSE NoOutputMessage))
        ELSE safeResolve(s, ExecResult(FALSE,
                 IF err1 # <<>> THEN err1
                 ELSE <<"Process exited with code ", exitCode>>))

\* The "error" handler.
onError(s, message) ==
    safeResolve(s, ExecResult(FALSE, <<"Failed to execute Python: ", message>>))

\* Variant: the timer only kills the child and leaves the result to "close".
onTimeoutKillOnly(s) == [s EXCEPT !.timer = "fired", !.child = "killed"]

\* The timer callback: kill, then the fixed failure.
onTimeout(s) ==
    safeResolve([s EXCEPT !.timer = "fired", !.child = "killed"],
                ExecResult(FALSE, TimeoutMessage))

\* The catch of the executor.
onException(s, message) == safeResolve(s, ExecResult(FALSE, <<"Error: ", message>>))

\* executePython is called: the executor writes the file, spawns the child,
\* registers the handlers and arms the timer, or catches what was thrown.
ExecuteStarts ==
    /\ sandbox.pc = "called"
    /\ \E step \in {"write throws", "write throws midway", "spawn throws", "spawned"} :
         sandbox' =
           CASE step = "write throws" ->
                  [onException(sandbox, "EACCES")
                     EXCEPT !.pc = "settled", !.events = Append(@, "exception")]
             [] step = "write throws midway" ->
                  [onException([sandbox EXCEPT !.tempFile = "present"], "ENOSPC")
                     EXCEPT !.pc = "settled", !.events = Append(@, "exception")]
             [] step = "spawn throws" ->
                  [onException([sandbox EXCEPT !.tempFile = "present"], "EAGAIN")
                     EXCEPT !.pc = "settled", !.events = Append(@, "exception")]
             [] OTHER ->
                  [sandbox EXCEPT !.tempFile = "present", !.child = "alive",
                                  !.timer = "pending", !.pc = "running"]
    /\ UNCHANGED calc
    /\ UNCHANGED orchestratorVars

\* A "data" event of stdout or stderr.
ChildWrites ==
    /\ sandbox.pc = "running"
    /\ ~sandbox.closed
    /\ \/ /\ Len(sandbox.stdout) < MaxChunks
          /\ \E chunk \in {"391", " ", "\n"} :
               sandbox' = [sandbox EXCEPT !.stdout = Append(@, chunk)]
       \/ /\ Len(sandbox.stderr) < MaxChunks
          /\ \E chunk \in {"warning", "\n"} :
               sandbox' = [sandbox EXCEPT !.stderr = Append(@, chunk)]
    /\ UNCHANGED calc
    /\ UNCHANGED orchestratorVars

\* The "close" event.
ChildCloses ==
    /\ sandbox.pc = "running"
    /\ ~sandbox.closed
    /\ \E exitCode \in ExitCodes :
         sandbox' = onClose([sandbox EXCEPT !.closed = TRUE, !.child = "gone",
                                            !.exitCode = exitCode,
                                            !.events = Append(@, "close")], exitCode)
    /\ UNCHANGED calc
    /\ UNCHANGED orchestratorVars

\* The "error" event (the child could not be spawned, or could not be killed).
ChildErrors ==
    /\ sandbox.pc = "running"
    /\ ~sandbox.closed
    /\ ~sandbox.errored
    /\ sandbox' = onError([sandbox EXCEPT !.errored = TRUE,
                                          !.events = Append(@, "error")], "ENOENT")
    /\ UNCHANGED calc
    /\ UNCHANGED orchestratorVars

\* The 10 second timer fires (it cannot once it was cleared).
TimerFires ==
    /\ sandbox.pc = "running"
    /\ sandbox.timer = "pending"
    /\ sandbox' = [onTimeout(sandbox) EXCEPT !.timedOut = TRUE,
                                             !.events = Append(@, "timeout")]
    /\ UNCHANGED calc
    /\ UNCHANGED orchestratorVars

InitSandbox ==
    /\ AtRest
    /\ sandbox = NewSandbox
    /\ calc = None

NextSandbox ==
    \/ ExecuteStarts
    \/ ChildWrites
    \/ ChildCloses
    \/ ChildErrors
    \/ TimerFires

SpecSandbox == InitSandbox /\ [][NextSandbox]_vars

C12_TimeoutResult ==
    sandbox.timedOut =>
        /\ sandbox.delivered = <<ExecResult(FALSE, TimeoutMessage)>>
        /\ sandbox.child \in {"killed", "gone"}

C12_Witness ==
    /\ sandbox.timedOut
    /\ sandbox.closed
    /\ sandbox.late > 0
    /\ sandbox.delivered = <<ExecResult(FALSE, TimeoutMessage)>>

\* The close event settled the call: nothing had resolved before it.
SettledByClose == sandbox.closed /\ sandbox.late = 0

\* C28: executePython maps the exit of the process to its result: exit code 0
\* gives success=true with stdout followed by the marked stderr when stderr
\* is non-empty, or the placeholder message when both are empty; every other
\* exit (a nonzero code, or none) gives success=false with stderr, or the
\* exit-code message when stderr is empty.  The two texts are taken without
\* their surrounding whitespace.
C28_ExitMapping ==
    SettledByClose =>
        LET stdout == trim(sandbox.stdout)
            stderr == trim(sandbox.stderr)
            result == sandbox.delivered[1]
        IN  /\ Len(sandbox.delivered) = 1
            /\ result.success = (sandbox.exitCode = "0")
            /\ (sandbox.exitCode = "0" /\ stderr # <<>>) =>
                   result.output = stdout \o <<"\n[stderr]: ">> \o stderr
            /\ (sandbox.exitCode = "0" /\ stderr = <<>> /\ stdout # <<>>) =>
                   result.output = stdout
            /\ (sandbox.exitCode = "0" /\ stderr = <<>> /\ stdout = <<>>) =>
                   result.output = <<"Code executed successfully (no output)">>
            /\ (sandbox.exitCode # "0" /\ stderr # <<>>) =>
                   result.output = stderr
            /\ (sandbox.exitCode # "0" /\ stderr = <<>>) =>
                   result.output = <<"Process exited with code ", sandbox.exitCode>>

C28_Witness ==
    /\ SettledByClose
    /\ sandbox.exitCode = "null"
    /\ sandbox.stdout # <<>>
    /\ sandbox.stderr = <<"\n">>
    /\ sandbox.delivered = <<ExecResult(FALSE, <<"Process exited with code ", "null">>)>>

\* C31: executePython delivers exactly one result per call, the one of the
\* first event among close, error, timeout and synchronous exception; under
\* every ordering of these events, a later event neither delivers a second
\* result nor runs the cleanup again.
C31_OneResultOfFirstEvent ==
    LET n == Len(sandbox.events)
    IN  IF n = 0
        THEN sandbox.delivered = <<>> /\ sandbox.resolves = 0 /\ sandbox.cleanups = 0
        ELSE LET result == sandbox.delivered[1]
                 first  == sandbox.events[1]
             IN  /\ Len(sandbox.delivered) = 1
                 /\ sandbox.resolves = 1
                 /\ sandbox.cleanups = 1
                 /\ sandbox.late = n - 1
                 /\ first = "timeout" =>
                        result = ExecResult(FALSE, <<"Execution timed out (10 second limit)">>)
                 /\ first = "error" =>
                        ~result.success /\ result.output[1] = "Failed to execute Python: "
                 /\ first = "exception" =>
                        ~result.success /\ result.output[1] = "Error: "
                 /\ first = "close" =>
                        /\ result.success = (sandbox.exitCode = "0")
                        /\ result.output[1] \notin
                              {"Execution timed out (10 second limit)",
                               "Failed to execute Python: ", "Error: "}

C31_Witness ==
    /\ sandbox.events = <<"error", "close">>
    /\ sandbox.late = 1
    /\ sandbox.cleanups = 1
    /\ sandbox.delivered = <<ExecResult(FALSE, <<"Failed to execute Python: ", "ENOENT">>)>>


\* SpecSimilarity: two strings are compared in both directions.
InitSimilarity ==
    /\ AtRest
    /\ sandbox = None
    /\ \E a, b \in TextsUpTo({"x", "y"}, MaxTextLen) :
         calc = [a |-> a, b |-> b, done |-> FALSE]

Compare ==
    /\ ~calc.done
    /\ calc' = [calc EXCEPT !.done = TRUE] @@
               [dab |-> levenshteinDistance(calc.a, calc.b),
                dba |-> levenshteinDistance(calc.b, calc.a),
                ab  |-> stringSimilarity(calc.a, calc.b),
                ba  |-> stringSimilarity(calc.b, calc.a),
                aa  |-> stringSimilarity(calc.a, calc.a)]
    /\ UNCHANGED sandbox
    /\ UNCHANGED orchestratorVars

SpecSimilarity == InitSimilarity /\ [][Compare]_vars

\* C20: the edit distance is symmetric and lies in 0..max(len a, len b);
\* the similarity is symmetric, lies in [0, 1], and is 1 for a string and
\* itself, the empty string included.
C20_SimilaritySymmetricBounded ==
    calc.done =>
        LET maxLen == IF Len(calc.a) >= Len(calc.b) THEN Len(calc.a) ELSE Len(calc.b)
        IN  /\ calc.dab = calc.dba
            /\ 0 <= calc.dab /\ calc.dab <= maxLen
            /\ calc.ab = calc.ba
            /\ 0 <= calc.ab.num /\ calc.ab.num <= calc.ab.den /\ calc.ab.den > 0
            /\ calc.aa.num = calc.aa.den

C20_Witness ==
    /\ calc.done
    /\ Len(calc.a) = 2 /\ Len(calc.b) = 3
    /\ calc.dab = 2
    /\ calc.ab = [num |-> 1, den |-> 3]


(***************************************************************************)
(* SpecConsensus: both aggregators are called on one list of results.      *)
(***************************************************************************)
MaxResults == 3   \* longest list of results aggregated

\* The results an expert can hand in: four canonical answers, some one edit
\* apart, with a short or a long raw response.
ResultKinds ==
    {[canonicalAnswer |-> c, response |-> p.response, success |-> p.success] :
        c \in {<<"y", "x", "x", "x">>, <<"x", "x", "x", "x">>,
               <<"x", "x", "x", "y">>, <<"x", "x", "y", "y">>},
        p \in {[response |-> <<"4">>, success |-> TRUE],
               [response |-> <<"i", "t", " ", "i", "s", " ", "4">>, success |-> TRUE],
               [response |-> <<"i", " ", "g", "i", "v", "e", " ", "u", "p">>,
                success |-> FALSE]}}

\* The expert of position i is provider i.
ResultLists ==
    UNION {{[i \in 1..n |-> kinds[i] @@ [providerId |-> i]] :
               kinds \in [1..n -> ResultKinds]} : n \in 1..MaxResults}

InitConsensus ==
    /\ AtRest
    /\ sandbox = None
    /\ \E rs \in ResultLists : calc = [results |-> rs, done |-> FALSE]

Aggregate ==
    /\ ~calc.done
    /\ calc' = [calc EXCEPT !.done = TRUE] @@
               [exact    |-> exactAggregate(calc.results),
                semantic |-> semanticAggregate(calc.results),
                clusters |-> clustersOf(calc.results),
                \* what solveMultiProvider streams for these results
                streamed |-> [strategy \in {"exact", "semantic"} |->
                                IF Successful(calc.results) = <<>>
                                THEN <<AllFailedMessage>>
                                ELSE ConsensusFragments(
                                        runConsensus(strategy,
                                                     Successful(calc.results)))]]
    /\ UNCHANGED sandbox
    /\ UNCHANGED orchestratorVars

SpecConsensus == InitConsensus /\ [][Aggregate]_vars

\* C13: for every non-empty list of results, the winning group of the exact
\* aggregator has at least as many votes as any other group, and agreement is
\* the winning vote count divided by the number of results passed in.
C13_WinnerHasMostVotes ==
    calc.done =>
        LET rs       == calc.results
            votes(c) == Cardinality({i \in 1..Len(rs) : rs[i].canonicalAnswer = c})
            winner   == calc.exact.winningGroup
        IN  /\ winner.voteCount = votes(winner.canonicalAnswer)
            /\ \A i \in 1..Len(rs) : votes(rs[i].canonicalAnswer) <= winner.voteCount
            /\ \A g \in 1..Len(calc.exact.allGroups) :
                 calc.exact.allGroups[g].voteCount <= winner.voteCount
            /\ calc.exact.agreement.num * Len(rs)
                 = winner.voteCount * calc.exact.agreement.den

C13_Witness ==
    /\ calc.done
    /\ Len(calc.results) = 3
    /\ Len(calc.exact.allGroups) = 2
    /\ calc.exact.winningGroup.voteCount = 2
    /\ calc.results[1].canonicalAnswer # calc.exact.winningGroup.canonicalAnswer

\* C32: the winningAnswer of ExactMatchAggregator.aggregate is the raw
\* response (not the canonical answer) of the member of the winning group
\* that comes first in the input order.
C32_ExactAnswerIsFirstRawResponse ==
    calc.done =>
        LET rs      == calc.results
            members == {i \in 1..Len(rs) :
                          rs[i].canonicalAnswer = calc.exact.winningGroup.canonicalAnswer}
            first   == CHOOSE i \in members : \A j \in members : i <= j
        IN  /\ members # {}
            /\ calc.exact.winningAnswer = rs[first].response

C32_Witness ==
    /\ calc.done
    /\ Len(calc.results) = 3
    /\ calc.results[1].canonicalAnswer # calc.exact.winningGroup.canonicalAnswer
    /\ calc.results[2].response # calc.results[3].response
    /\ Len(calc.results[2].response) < Len(calc.results[3].response)
    /\ calc.exact.winningGroup.voteCount = 2
    /\ calc.exact.winningAnswer = calc.results[2].response
    /\ calc.exact.winningAnswer # calc.exact.winningGroup.canonicalAnswer

\* C33: when groups tie on vote count and on success fraction, both
\* aggregators pick as winner the group whose first member comes earliest in
\* the input order; hence, when all successful experts of a multi-provider
\* solve disagree, the answer streamed is that of the first provider that
\* succeeded.
C33_TieGoesToEarliestGroup ==
    calc.done =>
        LET rs == calc.results
            ok == Successful(rs)
            tie(a, b) ==
                /\ a.voteCount = b.voteCount
                /\ a.averageSuccess.num * b.averageSuccess.den
                     = b.averageSuccess.num * a.averageSuccess.den
            earliest(verdict) ==
                \A k \in 2..Len(verdict.allGroups) :
                    tie(verdict.allGroups[1], verdict.allGroups[k]) =>
                        verdict.allGroups[1].responses[1].providerId
                          < verdict.allGroups[k].responses[1].providerId
            streamsFirst(strategy) ==
                calc.streamed[strategy] =
                    ConsensusFragments([runConsensus(strategy, ok)
                                           EXCEPT !.winningAnswer = ok[1].response])
        IN  /\ earliest(calc.exact)
            /\ earliest(calc.semantic)
            /\ (Len(ok) >= 2 /\ \A i, j \in 1..Len(ok) :
                    i # j => ok[i].canonicalAnswer # ok[j].canonicalAnswer)
                  => streamsFirst("exact")
            /\ (Len(ok) >= 2 /\ \A i, j \in 1..Len(ok) :
                    i # j => ~ReachesThreshold(stringSimilarity(ok[i].canonicalAnswer,
                                                               ok[j].canonicalAnswer)))
                  => streamsFirst("semantic")

C33_Witness ==
    /\ calc.done
    /\ Len(calc.results) = 3
    /\ ~calc.results[1].success
    /\ calc.results[2].success /\ calc.results[3].success
    /\ Len(calc.results[2].response) < Len(calc.results[3].response)
    /\ ~ReachesThreshold(stringSimilarity(calc.results[2].canonicalAnswer,
                                          calc.results[3].canonicalAnswer))
    /\ calc.streamed["semantic"] =
         ConsensusFragments([runConsensus("semantic", Successful(calc.results))
                                EXCEPT !.winningAnswer = calc.results[2].response])

\* C34: for both aggregators and every non-empty input the groups partition
\* the input: every result is a member of exactly one group, the voteCount
\* of a group is its number of members, the vote counts sum to totalExperts,
\* allGroups is sorted by descending vote count and winningGroup is the
\* first of allGroups.
C34_GroupsPartitionInput ==
    calc.done =>
        LET rs == calc.results
            partitions(verdict) ==
                LET groups == verdict.allGroups
                    places(i) == {<<g, m>> \in (1..Len(groups)) \X (1..Len(rs)) :
                                     /\ m <= Len(groups[g].responses)
                                     /\ groups[g].responses[m] = rs[i]}
                    votes == [g \in 1..Len(groups) |-> groups[g].voteCount]
                IN  /\ \A i \in 1..Len(rs) : Cardinality(places(i)) = 1
                    /\ \A g \in 1..Len(groups) :
                          /\ groups[g].voteCount = Len(groups[g].responses)
                          /\ groups[g].voteCount >= 1
                    /\ SumOver(1..Len(groups), votes) = verdict.totalExperts
                    /\ verdict.totalExperts = Len(rs)
                    /\ \A g \in 1..(Len(groups) - 1) :
                          groups[g].voteCount >= groups[g + 1].voteCount
                    /\ verdict.winningGroup = groups[1]
        IN  partitions(calc.exact) /\ partitions(calc.semantic)

C34_Witness ==
    /\ calc.done
    /\ Len(calc.results) = 3
    /\ Len(calc.exact.allGroups) = 3
    /\ Len(calc.semantic.allGroups) = 2
    /\ calc.semantic.allGroups[1].voteCount = 2
    /\ calc.semantic.allGroups[1].responses[1] = calc.results[2]
    /\ ~calc.results[3].success

\* C14: when all results have the same canonical answer (a single result
\* included), the exact aggregator returns one group, agreement 1 and the
\* summary of unanimity, which names no alternative.
C14_UnanimousSingleGroup ==
    (calc.done /\ \A i \in 1..Len(calc.results) :
                    calc.results[i].canonicalAnswer = calc.results[1].canonicalAnswer)
        => /\ Len(calc.exact.allGroups) = 1
           /\ calc.exact.agreement.num = calc.exact.agreement.den
           /\ calc.exact.summary =
                Summary("All N models agree on the answer.", Len(calc.results),
                        Len(calc.results), 1)

C14_Witness ==
    /\ calc.done
    /\ Len(calc.results) = 3
    /\ \A i \in 1..3 : calc.results[i].canonicalAnswer = calc.results[1].canonicalAnswer
    /\ calc.exact.winningGroup.voteCount = 3
    /\ ~calc.results[2].success

\* The similarity of two canonical answers is at least 0.7.
Close(a, b) ==
    LET similarity == stringSimilarity(a, b)
    IN  10 * similarity.num >= 7 * similarity.den

\* The cluster (by order of creation) that holds the result of provider id.
ClusterOf(id) ==
    CHOOSE c \in 1..Len(calc.clusters) :
        \E k \in 1..Len(calc.clusters[c]) : calc.clusters[c][k].providerId = id

\* C17 as stated: two results that both reach 0.7 against the first member of
\* one cluster are in the same cluster.
C17_CloseToSameFirstMember ==
    calc.done =>
        \A c \in 1..Len(calc.clusters) : \A i, j \in 1..Len(calc.results) :
            (/\ Close(calc.results[i].canonicalAnswer, calc.clusters[c][1].canonicalAnswer)
             /\ Close(calc.results[j].canonicalAnswer, calc.clusters[c][1].canonicalAnswer))
                => ClusterOf(i) = ClusterOf(j)

\* C17, amended: two results that both reach 0.7 against the first member of
\* a cluster, and stay below 0.7 against the first member of every cluster
\* started before it, are both in that cluster.
C17_CloseToFirstMatchingCluster ==
    calc.done =>
        \A c \in 1..Len(calc.clusters) : \A i, j \in 1..Len(calc.results) :
            (/\ Close(calc.results[i].canonicalAnswer, calc.clusters[c][1].canonicalAnswer)
             /\ Close(calc.results[j].canonicalAnswer, calc.clusters[c][1].canonicalAnswer)
             /\ \A d \in 1..(c - 1) :
                  /\ ~Close(calc.results[i].canonicalAnswer,
                            calc.clusters[d][1].canonicalAnswer)
                  /\ ~Close(calc.results[j].canonicalAnswer,
                            calc.clusters[d][1].canonicalAnswer))
                => ClusterOf(i) = c /\ ClusterOf(j) = c

C17_Witness ==
    /\ calc.done
    /\ Len(calc.clusters) = 2
    /\ Len(calc.clusters[2]) = 2
    /\ calc.clusters[2][2].canonicalAnswer # calc.clusters[2][1].canonicalAnswer
    /\ Close(calc.clusters[1][1].canonicalAnswer, calc.clusters[2][2].canonicalAnswer)
         = FALSE

\* C18: every later member of a cluster reaches 0.7 against the cluster's
\* first member, and the first member of a cluster reaches 0.7 against the
\* first member of no cluster that existed when it was started.
C18_ClustersRespectThreshold ==
    calc.done =>
        \A c \in 1..Len(calc.clusters) :
            /\ \A k \in 2..Len(calc.clusters[c]) :
                 Close(calc.clusters[c][k].canonicalAnswer,
                       calc.clusters[c][1].canonicalAnswer)
            /\ \A d \in 1..(c - 1) :
                 ~Close(calc.clusters[c][1].canonicalAnswer,
                        calc.clusters[d][1].canonicalAnswer)

C18_Witness ==
    /\ calc.done
    /\ Len(calc.clusters) = 2
    /\ Len(calc.clusters[1]) = 2
    /\ calc.clusters[1][2].canonicalAnswer # calc.clusters[1][1].canonicalAnswer
    /\ levenshteinDistance(calc.clusters[2][1].canonicalAnswer,
                           calc.clusters[1][1].canonicalAnswer) = 2

AnswerWords ==
    {<<[lower |-> <<"o", "k">>, upper |-> <<"O", "K">>]>>,
     <<[lower |-> <<"n", "_", "v">>, upper |-> <<"N", "_", "V">>]>>,
     <<[lower |-> <<"o", "k">>, upper |-> <<"O", "K">>],
       [lower |-> <<"b">>, upper |-> <<"B">>]>>,
     <<[lower |-> <<"n", "_", "v">>, upper |-> <<"N", "_", "V">>],
       [lower |-> <<"b">>, upper |-> <<"B">>]>>}

\* No emphasis, italic and bold with asterisks, italic and bold with
\* underscores.
EmphasisMarkers == {<<>>, <<"*">>, <<"*", "*">>, <<"_">>, <<"_", "_">>}

\* The ways of writing one answer: letter case, emphasis markers around the
\* first word, and one or two spaces between the words.
AnswerVariants(words) ==
    {LET first == markers \o (IF upper THEN words[1].upper ELSE words[1].lower)
                  \o markers
     IN  IF Len(words) = 1 THEN first
         ELSE first \o gap \o (IF upper THEN words[2].upper ELSE words[2].lower) :
        upper \in BOOLEAN, markers \in EmphasisMarkers,
        gap \in {<<" ">>, <<" ", " ">>}}

InitCanonical ==
    /\ AtRest
    /\ sandbox = None
    /\ \E words \in AnswerWords :
         \E a \in AnswerVariants(words), b \in AnswerVariants(words) :
            calc = [answers |-> <<a, b>>, done |-> FALSE]

\* Two experts answer with the two variants; each result carries the
\* canonical form of its answer, and the exact-match aggregator groups them.
Canonicalize ==
    /\ ~calc.done
    /\ LET rs == [i \in 1..2 |->
                    [providerId      |-> i,
                     response        |-> calc.answers[i],
                     canonicalAnswer |-> canonicalizeAnswer(calc.answers[i]),
                     success         |-> TRUE]]
       IN  calc' = [calc EXCEPT !.done = TRUE] @@
                   [results |-> rs, exact |-> exactAggregate(rs)]
    /\ UNCHANGED sandbox
    /\ UNCHANGED orchestratorVars

SpecCanonical == InitCanonical /\ [][Canonicalize]_vars

\* C15: two answers that differ only in letter case, in the length of the
\* runs of whitespace, or in bold/italic markers around words have the same
\* canonical form, so the exact-match aggregator puts them in one group with
\* full agreement.
C15_VariantsShareCanonicalForm ==
    calc.done =>
        /\ calc.results[1].canonicalAnswer = calc.results[2].canonicalAnswer
        /\ Len(calc.exact.allGroups) = 1
        /\ calc.exact.agreement.num = calc.exact.agreement.den

(***************************************************************************)
(* The agreement reported by solveMultiProvider                            *)
(***************************************************************************)

\* C16: in a multi-provider solve the agreement reported with the consensus
\* is the vote count of the winning group divided by the number of experts
\* that were run, one per enabled provider, also when some of them failed.
C16_AgreementOverExpertsRun ==
    (phase = "done" /\ consensus # <<>>) =>
        LET verdict == consensus[1].verdict
        IN  verdict.agreement.num * Len(results)
                = verdict.winningGroup.voteCount * verdict.agreement.den

(***************************************************************************)
(* canonicalizeAnswer applied to its own result                            *)
(***************************************************************************)
MaxAnswerLen == 4   \* longest answer canonicalized twice

InitRecanonicalize ==
    /\ AtRest
    /\ sandbox = None
    /\ \E answer \in TextsUpTo({"*", " ", "o"}, MaxAnswerLen) :
         calc = [answer |-> answer, done |-> FALSE]

\* canonicalizeAnswer(answer), then canonicalizeAnswer of what it returned.
Recanonicalize ==
    /\ ~calc.done
    /\ LET once == canonicalizeAnswer(calc.answer)
       IN  calc' = [calc EXCEPT !.done = TRUE] @@
                   [once |-> once, twice |-> canonicalizeAnswer(once)]
    /\ UNCHANGED sandbox
    /\ UNCHANGED orchestratorVars

SpecRecanonicalize == InitRecanonicalize /\ [][Recanonicalize]_vars

\* C21: canonicalizeAnswer is idempotent: canonicalizing a canonical form
\* gives the same canonical form.
C21_CanonicalizeIdempotent ==
    calc.done => calc.twice = calc.once

(***************************************************************************)
(* SpecRouter: the routing of solveMultiProvider, for one prompt, one      *)
(* consensus mode and one list of successful results.                      *)
(***************************************************************************)
\* The prompts routed: an opening with keywords, a fenced code block, a
\* number, a filler that makes the text long, and an ending; and two prompts
\* given as turns.
RouterPrompts ==
    {StringPrompt(Chars(opening) \o block \o Chars(number) \o filler \o Chars(ending)) :
        opening \in {"", "Explain ", "explain describe compare ", "solve ",
                     "Solve and explain "},
        block   \in {<<>>, <<Fence, "x", Fence>>},
        number  \in {"", " 7"},
        filler  \in {<<>>, [i \in 1..100 |-> "z"]},
        ending  \in {"", "?", "? so"}}
    \cup {ArrayPrompt(<<Turn("user", Chars("what")),
                        Turn("assistant", Chars("solve 7")),
                        Turn("user", Chars("is it?"))>>),
          ArrayPrompt(<<Turn("assistant", Chars("explain?"))>>)}

InitRouter ==
    /\ AtRest
    /\ sandbox = None
    /\ \E userPrompt \in RouterPrompts, mode \in {"auto", "exact", "semantic"} :
         calc = [userPrompt        |-> userPrompt,
                 consensusMode     |-> mode,
                 successfulResults |->
                     <<[providerId |-> 1, success |-> TRUE, response |-> <<"4">>,
                        canonicalAnswer |-> <<"4">>],
                       [providerId |-> 2, success |-> TRUE, response |-> <<"4", "2">>,
                        canonicalAnswer |-> <<"4", "2">>]>>,
                 done              |-> FALSE]

\* classifyTask, selectConsensusStrategy, then the aggregator of the strategy.
Route ==
    /\ ~calc.done
    /\ LET taskType == classifyTask(calc.userPrompt)
           strategy == selectConsensusStrategy(taskType, calc.consensusMode)
       IN  calc' = [calc EXCEPT !.done = TRUE] @@
                   [taskType  |-> taskType,
                    strategy  |-> strategy,
                    consensus |-> runConsensus(strategy, calc.successfulResults)]
    /\ UNCHANGED sandbox
    /\ UNCHANGED orchestratorVars

SpecRouter == InitRouter /\ [][Route]_vars

\* C22: a task text that contains a fenced code block is classified as
\* "structured", whatever keywords it contains.
C22_CodeBlockIsStructured ==
    (calc.done /\ Includes(extractText(calc.userPrompt), <<Fence>>))
        => calc.taskType = "structured"

\* C22, amended: a task text that contains a fenced code block is classified
\* as "structured" whenever it contains fewer open-ended keywords than
\* structured keywords plus two.
C22_CodeBlockOutweighsOneKeyword ==
    LET text == LowerText(extractText(calc.userPrompt))
        hits(keywords) == Cardinality({k \in keywords : Includes(text, k)})
    IN  (/\ calc.done
         /\ Includes(text, <<Fence>>)
         /\ hits(OPEN_ENDED_KEYWORDS) < hits(STRUCTURED_KEYWORDS) + 2)
            => calc.taskType = "structured"

C22_Witness ==
    /\ calc.done
    /\ "userPrompt" \in DOMAIN calc
    /\ extractText(calc.userPrompt) = Chars("Explain ") \o <<Fence, "x", Fence>>
    /\ calc.taskType = "structured"

\* C23: when the structured score and the open-ended score are equal, the
\* task is "structured" exactly when the text is shorter than 100 characters
\* and ends with a question mark.
C23_TieGoesByLengthAndEnding ==
    LET text   == LowerText(extractText(calc.userPrompt))
        scores == taskScores(text)
    IN  (calc.done /\ scores.structured = scores.openEnded)
            => (calc.taskType = "structured"
                   <=> /\ textLength(text) < 100
                       /\ text # <<>>
                       /\ text[Len(text)] = "?")

\* C24: the strategy is the consensus mode when the mode is "exact" or
\* "semantic"; with the mode "auto" it is "exact" for a structured task and
\* "semantic" for an open-ended one; and the aggregator that is run is the
\* one of that strategy.
C24_StrategyFollowsModeThenTaskType ==
    calc.done =>
        /\ calc.consensusMode \in {"exact", "semantic"}
              => calc.strategy = calc.consensusMode
        /\ calc.consensusMode = "auto"
              => calc.strategy = (IF calc.taskType = "structured" THEN "exact"
                                  ELSE "semantic")
        /\ calc.consensus.strategy = calc.strategy

C24_Witness ==
    /\ calc.done
    /\ "consensusMode" \in DOMAIN calc
    /\ calc.consensusMode = "exact"
    /\ calc.taskType = "open_ended"
    /\ calc.consensus.strategy = "exact"

(***************************************************************************)
(* The transcript and the steps of one ExpertRunner.run                    *)
(***************************************************************************)

\* C29: the transcript sent to the provider at attempt k is the initial
\* messages followed by 2(k-1) appended turns, whatever the kinds of the
\* earlier failed attempts.
C29_TranscriptGrowsByTwo ==
    (phase = "runner" /\ expert[1].pc = "generating")
        => LET transcript == heap[expert[1].workingMessages]
           IN  /\ Len(transcript) = Len(heap[0]) + 2 * (expert[1].attempts - 1)
               /\ SubSeq(transcript, 1, Len(heap[0])) = heap[0]

\* C29, amended: the transcript sent to the provider at attempt k is the
\* initial messages followed by two turns (the failing assistant response,
\* then a user turn describing the error) for each earlier attempt that
\* ended without a code block or with a failed execution; an attempt ended
\* by a provider error appends nothing.
C29_TranscriptGrowsPerAnsweredFailure ==
    (phase = "runner" /\ expert[1].pc = "generating")
        => LET transcript == heap[expert[1].workingMessages]
               answered   == audit[1].nocode + audit[1].execfail
           IN  /\ Len(transcript) = Len(heap[0]) + 2 * answered
               /\ SubSeq(transcript, 1, Len(heap[0])) = heap[0]
               /\ \A j \in 1..answered :
                    /\ transcript[Len(heap[0]) + 2 * j - 1].role = "assistant"
                    /\ transcript[Len(heap[0]) + 2 * j].role = "user"
               /\ expert[1].attempts - 1 = answered + audit[1].api

C29_Witness ==
    /\ phase = "runner"
    /\ expert[1].pc = "generating"
    /\ expert[1].attempts = 3
    /\ audit[1].api = 1
    /\ audit[1].execfail = 1
    /\ Len(heap[expert[1].workingMessages]) = Len(heap[0]) + 2

\* C30: the steps of one run are a "think" step, then for each attempt a
\* "code" step followed by exactly one "verify" or "error" step; "verify"
\* is emitted at most once and is then the last step of the runner.
C30_StepSequence ==
    phase = "runner" =>
        LET steps == audit[1].steps
            x     == expert[1]
        IN  IF x.pc = "idle" THEN steps = <<>>
            ELSE /\ steps[1] = "think"
                 /\ \A i \in 2..Len(steps) :
                      IF i % 2 = 0 THEN steps[i] = "code"
                      ELSE steps[i] \in {"verify", "error"}
                 /\ \A i \in 1..Len(steps) :
                      steps[i] = "verify" => (i = Len(steps) /\ x.pc = "returned")
                 /\ Len(steps) = (IF x.pc = "returned" THEN 1 + 2 * x.attempts
                                  ELSE 2 * x.attempts)

C30_Witness ==
    /\ phase = "runner"
    /\ expert[1].pc = "returned"
    /\ audit[1].steps = <<"think", "code", "error", "code", "error", "code", "verify">>
    /\ audit[1].api = 1 /\ audit[1].nocode = 1

\* C35: every ExpertResult returned by run satisfies: success=true implies
\* executionOutput is set, error is unset and canonicalAnswer is the
\* canonical form of the execution output alone, whatever the prose of the
\* response; success=false implies executionOutput is unset and response is
\* the empty string.
C35_ExpertResultShape ==
    \A e \in DOMAIN expert :
        expert[e].pc = "returned" =>
            LET result == expert[e].result
            IN  /\ result.success =>
                      /\ result.executionOutput # None
                      /\ result.error = None
                      /\ result.canonicalAnswer =
                            canonicalizeAnswer(<<result.executionOutput>>)
                /\ ~result.success =>
                      /\ result.executionOutput = None
                      /\ result.response = <<"">>

C35_Witness ==
    /\ phase = "runner"
    /\ expert[1].pc = "returned"
    /\ expert[1].result.success
    /\ expert[1].finalResponse = "python"
    /\ expert[1].result.response = <<"here it is", "**Result:**", "391">>
    /\ expert[1].result.canonicalAnswer = <<"391">>
    /\ expert[1].result.iterations = 2

(***************************************************************************)
(* SpecRequest: the solve route numbers the reasoning steps.  The experts  *)
(* of one solve call onReasoningStep in any interleaving; when the stream  *)
(* has ended the route may add a review step.                              *)
(***************************************************************************)
\* Variant: the step takes the number before it is incremented.
NumberedBeforeIncrement(step, stepNumber) == step @@ [stepNumber |-> stepNumber]

\* `stepNumber++; const stepData = { ...step, stepNumber }`
Numbered(step, stepNumber) == step @@ [stepNumber |-> stepNumber + 1]

\* Two experts, each with the steps of a run still to emit.
InitRequest ==
    /\ providers = <<>>
    /\ consensusMode = "auto"
    /\ task = None
    /\ phase = "streaming"
    /\ expert \in [1..2 -> {<<"think", "code", "verify">>,
                            <<"think", "code", "error", "code", "verify">>}]
    /\ heap = <<>>
    /\ results = <<>>
    /\ out = <<>>
    /\ stepCount = 0
    /\ pendingSteps = <<>>
    /\ usageEvents = <<>>
    /\ consensus = <<>>
    /\ audit = <<>>
    /\ raised = FALSE
    /\ sandbox = None
    /\ calc = None

\* The callback the route hands to solveTask, called by expert e.
onReasoningStep(e) ==
    /\ phase = "streaming"
    /\ expert[e] # <<>>
    /\ LET stepData == Numbered([provider |-> e, action |-> Head(expert[e])],
                                stepCount)
       IN  /\ stepCount' = stepCount + 1
           /\ pendingSteps' = Append(pendingSteps, stepData)
    /\ expert' = [expert EXCEPT ![e] = Tail(@)]
    /\ UNCHANGED <<providers, consensusMode, task, phase, heap, results, out,
                   usageEvents, consensus, audit, raised, sandbox, calc>>

\* The stream has ended: the response is parsed and its review, when it has
\* one, becomes a step.
StreamEnds ==
    /\ phase = "streaming"
    /\ \A e \in DOMAIN expert : expert[e] = <<>>
    /\ \E review \in BOOLEAN :
         IF review
         THEN /\ stepCount' = stepCount + 1
              /\ pendingSteps' = Append(pendingSteps,
                     Numbered([provider |-> "poetiq", action |-> "review"], stepCount))
         ELSE UNCHANGED <<stepCount, pendingSteps>>
    /\ phase' = "responded"
    /\ UNCHANGED <<providers, consensusMode, task, expert, heap, results, out,
                   usageEvents, consensus, audit, raised, sandbox, calc>>

NextRequest ==
    \/ \E e \in DOMAIN expert : onReasoningStep(e)
    \/ StreamEnds

SpecRequest == InitRequest /\ [][NextRequest]_vars

\* C25: the reasoning steps of one solve request carry the numbers 1, 2, 3,
\* ... in the order they are emitted, under every interleaving of the experts'
\* callbacks; the review step, when there is one, comes last and so has a
\* number greater than every other step.
C25_StepNumbersCountUp ==
    /\ Len(pendingSteps) = stepCount
    /\ \A i \in 1..Len(pendingSteps) :
         /\ pendingSteps[i].stepNumber = i
         /\ pendingSteps[i].action = "review" => i = Len(pendingSteps)

C25_Witness ==
    /\ phase = "responded"
    /\ Len(pendingSteps) = 9
    /\ pendingSteps[9].action = "review"
    /\ pendingSteps[1].provider = 2
    /\ pendingSteps[2].provider = 1
    /\ pendingSteps[3].provider = 2

(***************************************************************************)
(* The multi-provider domain pipeline (checked under SpecSolve).           *)
(***************************************************************************)
QuantMultiPath == isQuantTask(task) /\ Len(providers) >= 2

\* C27: in the multi-provider domain pipeline the streamed output is that of
\* a successful result whose score is at least the score of every other
\* successful result, and neither a consensus aggregator nor an
\* ExpertRunner is invoked.
C27_QuantStreamsBestScored ==
    QuantMultiPath =>
        /\ consensus = <<>>
        /\ heap = <<>>
        /\ \A e \in DOMAIN audit : audit[e].steps = <<>>
        /\ \A e \in DOMAIN expert : expert[e].pc \in {"analyst", "coder", "returned"}
        /\ (phase = "done" /\ Successful(results) # <<>>) =>
              \E i \in 1..Len(results) :
                 /\ results[i].success
                 /\ \A j \in 1..Len(results) :
                        results[j].success =>
                            results[j].validation.score <= results[i].validation.score
                 /\ out = <<out[1]>> \o QuantFragments(results[i],
                                                        Len(Successful(results)))

C27_Witness ==
    /\ QuantMultiPath
    /\ phase = "done"
    /\ Len(Successful(results)) >= 2
    /\ \E i \in 2..Len(results) :
          /\ results[i].success
          /\ results[1].success
          /\ results[1].validation.score < results[i].validation.score
          /\ out = <<out[1]>> \o QuantFragments(results[i], Len(Successful(results)))


\* C36: every attempt of the generate/execute retry loop issues exactly one
\* streaming call to the provider of the expert, in the single-provider path
\* as well as in ExpertRunner, for every kind of enabled provider (openai,
\* anthropic, openrouter, custom endpoint): no attempt is consumed without a
\* provider call.
C36_EveryAttemptCallsProvider ==
    (phase \in {"single", "multi", "done"} /\ ~isQuantTask(task)) =>
        \A e \in DOMAIN expert :
            (expert[e].config.id \in {"openai", "anthropic", "openrouter"}
               \/ expert[e].config.isCustom)
              => audit[e].calls = expert[e].attempts


(***************************************************************************)
(* SpecSecondary: one generateTitle or generateSummary call.               *)
(***************************************************************************)
FallbackTitle == Chars("New Conversation")

\* Variant: the title is not cut.
titleUncut(content) ==
    LET t     == trim(content)
        front == IF t # <<>> /\ Head(t) \in {"\"", "'"} THEN Tail(t) ELSE t
    IN  IF front # <<>> /\ front[Len(front)] \in {"\"", "'"}
        THEN SubSeq(front, 1, Len(front) - 1) ELSE front

\* `title.trim().replace(/^["']|["']$/g, "").slice(0, 60)`
titleOf(content) ==
    LET t     == trim(content)
        front == IF t # <<>> /\ Head(t) \in {"\"", "'"} THEN Tail(t) ELSE t
        bare  == IF front # <<>> /\ front[Len(front)] \in {"\"", "'"}
                 THEN SubSeq(front, 1, Len(front) - 1) ELSE front
    IN  SubSeq(bare, 1, IF Len(bare) < 60 THEN Len(bare) ELSE 60)

\* What the provider can answer with.
SecondaryContents ==
    {Chars(text) : text \in {"", "  ", "Plan", " Plan ", "'Plan'", "\"Plan\"",
                             "'Plan", "a 'b' c", "''", "'", " 'x' ", "Plan."}}
    \cup {[i \in 1..n |-> "t"] : n \in {59, 60, 61, 70}}
    \cup {<<"'">> \o [i \in 1..60 |-> "t"] \o <<"'">>}

InitSecondary ==
    /\ \E list \in ProviderLists : providers = EnabledOnly(list)
    /\ consensusMode = "auto"
    /\ pendingSteps = <<>>
    /\ task = None
    /\ phase = "idle"
    /\ expert = <<>>
    /\ heap = <<>>
    /\ results = <<>>
    /\ out = <<>>
    /\ stepCount = 0
    /\ usageEvents = <<>>
    /\ consensus = <<>>
    /\ audit = <<>>
    /\ raised = FALSE
    /\ sandbox = None
    /\ \E fn \in {"generateTitle", "generateSummary"} :
         calc = [fn |-> fn, pc |-> "called", calls |-> 0, failed |-> FALSE,
                 result |-> None]

\* generateTitle / generateSummary up to the provider call or the return.
generateCalled ==
    /\ calc.pc = "called"
    /\ calc' =
         IF Len(providers) = 0
         THEN [calc EXCEPT !.pc = "returned",
                           !.result = IF calc.fn = "generateTitle"
                                      THEN FallbackTitle ELSE <<>>]
         ELSE IF providers[1].id \in {"openai", "anthropic"}
         THEN [calc EXCEPT !.pc = "awaiting", !.calls = @ + 1]
         ELSE [calc EXCEPT !.pc = "returned",
                           !.result = IF calc.fn = "generateTitle"
                                      THEN titleOf(<<>>) ELSE trim(<<>>)]
    /\ UNCHANGED sandbox
    /\ UNCHANGED orchestratorVars

\* The provider call settles: it delivers a content or raises.
generateSettles ==
    /\ calc.pc = "awaiting"
    /\ \/ \E content \in SecondaryContents :
            calc' = [calc EXCEPT !.pc = "returned",
                                 !.result = IF calc.fn = "generateTitle"
                                            THEN titleOf(content) ELSE trim(content)]
       \/ calc' = [calc EXCEPT !.pc = "returned", !.failed = TRUE,
                               !.result = IF calc.fn = "generateTitle"
                                          THEN FallbackTitle ELSE <<>>]
    /\ UNCHANGED sandbox
    /\ UNCHANGED orchestratorVars

NextSecondary == generateCalled \/ generateSettles

SpecSecondary == InitSecondary /\ [][NextSecondary]_vars

\* C26: generateTitle and generateSummary return (they never raise) after at
\* most one provider call; a title has at most 60 characters and is "New
\* Conversation" when no provider is enabled or the call failed; a summary
\* is empty in those two cases.
C26_BestEffortTitleAndSummary ==
    /\ calc.pc \in {"called", "awaiting", "returned"}
    /\ calc.calls <= 1
    /\ calc.pc = "returned" =>
         /\ calc.fn = "generateTitle" => Len(calc.result) <= 60
         /\ (Len(providers) = 0 \/ calc.failed) =>
              calc.result = (IF calc.fn = "generateTitle"
                             THEN Chars("New Conversation") ELSE <<>>)

C26_Witness ==
    /\ calc.pc = "returned"
    /\ calc.fn = "generateTitle"
    /\ calc.calls = 1
    /\ ~calc.failed
    /\ Len(calc.result) = 60


(***************************************************************************)
(* SpecClients: a sequence of getCustomClient calls on the module's cache. *)
(***************************************************************************)
MaxClientCalls == 3   \* getCustomClient calls in one run

\* The providers passed in: ids and base URLs with and without a colon, a
\* missing base URL, a missing key and two keys.
CustomProviders ==
    {[id |-> Chars(id), baseUrl |-> Chars(baseUrl), apiKey |-> Chars(apiKey)] :
        id \in {"a", "a:b"}, baseUrl \in {"", "c", "b:c"}, apiKey \in {"", "k", "j"}}

\* `${provider.id}:${provider.baseUrl}`
cacheKey(provider) == provider.id \o <<":">> \o provider.baseUrl

\* new OpenAI({baseURL, apiKey: provider.apiKey || "not-required"})
NewClient(provider) ==
    [baseURL |-> provider.baseUrl,
     apiKey  |-> IF provider.apiKey = <<>> THEN Chars("not-required")
                 ELSE provider.apiKey]

InitClients ==
    /\ AtRest
    /\ sandbox = None
    /\ calc = [cache |-> {}, calls |-> 0, provider |-> None, client |-> None,
               threw |-> FALSE]

\* One call of getCustomClient.
getCustomClient ==
    /\ calc.calls < MaxClientCalls
    /\ \E provider \in CustomProviders :
         LET key    == cacheKey(provider)
             cached == {entry \in calc.cache : entry.key = key}
         IN  IF provider.baseUrl = <<>>
             THEN calc' = [calc EXCEPT !.calls = @ + 1, !.provider = provider,
                                       !.client = None, !.threw = TRUE]
             ELSE IF cached # {}
             THEN calc' = [calc EXCEPT !.calls = @ + 1, !.provider = provider,
                                       !.client = (CHOOSE entry \in cached : TRUE).client,
                                       !.threw = FALSE]
             ELSE calc' = [calc EXCEPT !.calls = @ + 1, !.provider = provider,
                                       !.client = NewClient(provider),
                                       !.threw = FALSE,
                                       !.cache = @ \cup {[key |-> key,
                                                          client |-> NewClient(provider)]}]
    /\ UNCHANGED sandbox
    /\ UNCHANGED orchestratorVars

SpecClients == InitClients /\ [][getCustomClient]_vars

\* C37: after any sequence of getCustomClient calls, the client returned for
\* a provider is configured with the baseUrl and the apiKey of the provider
\* passed in that call, also after the apiKey of a provider with unchanged id
\* and baseUrl has been changed.
C37_ClientHasCallersCredential ==
    (calc.calls > 0 /\ ~calc.threw) =>
        /\ calc.client.baseURL = calc.provider.baseUrl
        /\ calc.client.apiKey = (IF calc.provider.apiKey = <<>>
                                 THEN Chars("not-required")
                                 ELSE calc.provider.apiKey)


(***************************************************************************)
(* SpecChat: the end of the chat route, from the count of the stored       *)
(* messages to the rolling summary.                                        *)
(***************************************************************************)
SLIDING_WINDOW_SIZE == 10
SUMMARY_TRIGGER_COUNT == 6

\* The summary rows of the conversation before the request: none or one.
StoredSummaries == {<<>>, <<[summary |-> Chars("old"), messageCount |-> 12]>>}

\* allMessages.length after the assistant message was stored.
MessageCounts == {2, 10, 12, 14, 24, 26}

\* turnsSinceLastSummary >= SUMMARY_TRIGGER_COUNT && allMessages.length > SLIDING_WINDOW_SIZE
summaryDue(existingSummary, allMessages) ==
    LET lastSummaryCount == IF existingSummary = <<>> THEN 0
                            ELSE existingSummary[1].messageCount
    IN  /\ (allMessages - lastSummaryCount) \div 2 >= SUMMARY_TRIGGER_COUNT
        /\ allMessages > SLIDING_WINDOW_SIZE

InitChat ==
    /\ \E list \in ProviderLists : providers = EnabledOnly(list)
    /\ consensusMode = "auto"
    /\ pendingSteps = <<>>
    /\ task = None
    /\ phase = "idle"
    /\ expert = <<>>
    /\ heap = <<>>
    /\ results = <<>>
    /\ out = <<>>
    /\ stepCount = 0
    /\ usageEvents = <<>>
    /\ consensus = <<>>
    /\ audit = <<>>
    /\ raised = FALSE
    /\ sandbox = None
    /\ \E existingSummary \in StoredSummaries, allMessages \in MessageCounts :
         calc = [fn |-> "generateSummary", pc |-> "route", calls |-> 0,
                 failed |-> FALSE, result |-> None,
                 existingSummary |-> existingSummary, allMessages |-> allMessages,
                 stored |-> existingSummary, due |-> FALSE]

\* The route tests the trigger: generateSummary is called, or the request ends.
SummaryTrigger ==
    /\ calc.pc = "route"
    /\ calc' = IF summaryDue(calc.existingSummary, calc.allMessages)
               THEN [calc EXCEPT !.pc = "called", !.due = TRUE]
               ELSE [calc EXCEPT !.pc = "done"]
    /\ UNCHANGED sandbox
    /\ UNCHANGED orchestratorVars

\* upsertConversationSummary: the row is updated, or inserted when missing.
upsertConversationSummary(stored, summary, messageCount) ==
    <<[summary |-> summary, messageCount |-> messageCount]>>

\* generateSummary returned: its text is stored with the new message count.
SummaryStored ==
    /\ calc.pc = "returned"
    /\ calc.due
    /\ calc' = [calc EXCEPT !.pc = "done",
                            !.stored = upsertConversationSummary(
                                           @, calc.result, calc.allMessages)]
    /\ UNCHANGED sandbox
    /\ UNCHANGED orchestratorVars

NextChat == SummaryTrigger \/ generateCalled \/ generateSettles \/ SummaryStored

SpecChat == InitChat /\ [][NextChat]_vars

\* C38: in the chat route, when the generation of the rolling summary fails
\* (the provider call raises or no provider answers), the conversation
\* summary and message count stored before the request are left unchanged.
C38_FailedSummaryKeepsStored ==
    (calc.pc = "done" /\ calc.due /\ (calc.failed \/ calc.calls = 0)) =>
        calc.stored = calc.existingSummary


(***************************************************************************)
(* SpecChunks: one content is streamed through yieldBufferedContent.       *)
(***************************************************************************)
MaxContentLen == 61   \* longest content streamed

\* A content of n characters in which the characters of any two chunks differ.
ContentOfLength(n) ==
    [i \in 1..n |-> <<"a", "b", "c", "d", "e", "f", "g">>[(i % 7) + 1]]

InitChunks ==
    /\ AtRest
    /\ sandbox = None
    /\ \E n \in 0..MaxContentLen :
         calc = [content |-> ContentOfLength(n), chunks |-> <<>>, done |-> FALSE]

\* The for await loop over yieldBufferedContent(content) runs to its end.
StreamContent ==
    /\ ~calc.done
    /\ calc' = [calc EXCEPT !.chunks = yieldBufferedContent(calc.content),
                            !.done = TRUE]
    /\ UNCHANGED sandbox
    /\ UNCHANGED orchestratorVars

SpecChunks == InitChunks /\ [][StreamContent]_vars

\* C39: streaming through yieldBufferedContent is lossless and makes no
\* provider call: the yielded chunks, concatenated in order, are the content;
\* every chunk has at most 20 characters, every chunk but the last exactly
\* 20, and an empty content yields no chunk.
C39_ChunksAreLossless ==
    calc.done =>
        LET n       == Len(calc.chunks)
            lengths == [k \in 1..n |-> Len(calc.chunks[k].chunk)]
        IN  /\ \A k \in 1..n : lengths[k] <= 20
            /\ \A k \in 1..(n - 1) : lengths[k] = 20
            /\ SumOver(1..n, lengths) = Len(calc.content)
            /\ \A k \in 1..n : \A j \in 1..lengths[k] :
                  calc.chunks[k].chunk[j] = calc.content[20 * (k - 1) + j]
            /\ calc.content = <<>> => n = 0
            /\ audit = <<>>

C39_Witness ==
    /\ calc.done
    /\ Len(calc.content) = 41
    /\ Len(calc.chunks) = 3
    /\ Len(calc.chunks[3].chunk) = 1
    /\ calc.chunks[3].chunk[1] = calc.content[41]


(***************************************************************************)
(* SpecExtract: extractPythonCode is applied to one response.              *)
(***************************************************************************)
MaxSegments == 3   \* most segments (prose or fenced block) in a response

SegmentKinds ==
    {Prose("so"), Block("python", "p()"), Block("", "u()"), Block("js", "j()"),
     Block("python", "")}

ResponseLayouts == UNION {[1..n -> SegmentKinds] : n \in 1..MaxSegments}

InitExtract ==
    /\ AtRest
    /\ sandbox = None
    /\ \E segs \in ResponseLayouts : calc = [segs |-> segs, done |-> FALSE]

Extract ==
    /\ ~calc.done
    /\ calc' = [calc EXCEPT !.done = TRUE] @@
               [code |-> extractPythonCode(TextOf(calc.segs))]
    /\ UNCHANGED sandbox
    /\ UNCHANGED orchestratorVars

SpecExtract == InitExtract /\ [][Extract]_vars

\* C40: the code extracted is always the content of a fenced code block of
\* the response: the first python-tagged block when the response has one
\* (even if an untagged block comes before it), otherwise the first untagged
\* block; text outside every fenced block is never extracted as code.
C40_CodeIsBlockContent ==
    calc.done =>
        LET py    == FirstBlock(calc.segs, "python")
            plain == FirstBlock(calc.segs, "")
        IN  /\ py # 0 => /\ calc.code.matched
                         /\ calc.code.code = Chars(calc.segs[py].body)
            /\ (py = 0 /\ plain # 0) =>
                  /\ calc.code.matched
                  /\ calc.code.code = Chars(calc.segs[plain].body)
            /\ (py = 0 /\ plain = 0) => ~calc.code.matched

====
